---------------------------- MODULE Spec2Model ----------------------------
(***************************************************************************)
(* NailMetrics: the interactive overlay (NailOverlay), the landmark-based  *)
(* box estimator (useHandDetection) and the calibration state of App.      *)
(*                                                                         *)
(* Numbers.  The program computes in IEEE doubles; the model computes in   *)
(* exact arithmetic on fixed grids:                                        *)
(*   - normalized image coordinates in units of 1/Unit (Unit = 20000),     *)
(*   - the zoom scale in units of 1/ScaleUnit (ScaleUnit = 10),            *)
(*   - screen positions and translations in whole pixels,                  *)
(*   - angles as q quarter turns plus b times beta, beta = atan2(4, 3),    *)
(*     so that cos and sin are exact multiples of 1/5.                     *)
(* An input is enumerated only where every quotient the handler forms is   *)
(* exact on these grids (the Exact guards), so no rounding is introduced.  *)
(***************************************************************************)
EXTENDS Integers, Sequences, FiniteSets, TLC

VARIABLES
    \* ---- App (src/src/components/CoinOverlay.tsx, second half) ----
    measurements,          \* useState<NailMeasurement[]>
    imageSize,             \* useState({width, height}), native pixels
    pixelsPerMM,           \* useState<number | undefined>, in 1/PpmDen
    showCoinTool,          \* useState(false)
    appMode,               \* mode, useState<AppMode>('home')
    imageSrc,              \* useState<string | null>: NoImage or an image
    isAnalyzing,           \* useState(false)
    highlightedIndex,      \* useState<number | null>(null): NoIndex or an index
    \* ---- useHandDetection (src/src/hooks/useHandDetection.ts) ----
    landmarker,            \* useState<HandLandmarker | null>: TRUE when loaded
    isModelLoading,        \* isLoading, useState(true)
    modelError,            \* error, useState<string | null>: TRUE when set
    \* ---- NailOverlay (src/unnamed/part_001) ----
    transform,             \* useState({scale, x, y})
    isPanning,             \* useState(false)
    panStartRef,           \* useRef({x, y})
    panStartTransformRef,  \* useRef({x, y})
    activeId,              \* useState<number | null>
    interactionMode,       \* useState<string | null>
    dragStartRef,          \* useRef({x, y})
    initialMeasurementRef, \* useRef<NailMeasurement | null>: <<>> or <<m>>
    pinchStartDistRef,     \* useRef<number>(0)
    pinchStartScaleRef,    \* useRef<number>(1)
    \* ---- CoinOverlay (src/src/components/CoinOverlay.tsx, first half) ----
    diameter,              \* useState(100), in pixels of the unscaled canvas
    position,              \* useState({x, y}), the disk's left and top
    initialized,           \* useState(false): the disk has been centred
    isDragging,            \* useState(false)
    isResizing,            \* useState(false)
    coinDragStartRef,      \* dragStartRef of CoinOverlay, useRef({x, y})
    \* ---- environment and history ----
    readers,               \* images whose FileReader.onload is still to come
    loads,                 \* images whose Image.onload is still to come
    touches,               \* number of touch points now on the screen
    touchDist,             \* their distance as the last two-point event had it, else 0
    nDown,                 \* pointer-down events delivered so far
    calSource,             \* which producer wrote pixelsPerMM last
    detected,              \* the measurements as the detector delivered them
    lastEvent              \* the name of the handler that ran last

vars == << measurements, imageSize, pixelsPerMM, showCoinTool, transform,
           isPanning, panStartRef, panStartTransformRef, activeId,
           interactionMode, dragStartRef, initialMeasurementRef,
           pinchStartDistRef, pinchStartScaleRef, diameter, touches, touchDist,
           nDown, appMode, imageSrc, isAnalyzing, landmarker, isModelLoading,
           modelError, readers, loads, highlightedIndex, position, initialized,
           isDragging, isResizing, coinDragStartRef,
           calSource, detected, lastEvent >>

flowVars == << appMode, imageSrc, isAnalyzing, readers, loads >>
detectorVars == << landmarker, isModelLoading, modelError >>
coinGesture == << position, initialized, isDragging, isResizing, coinDragStartRef >>
coinState == << diameter, coinGesture >>
appVars == << imageSize, showCoinTool, coinState, highlightedIndex, detected,
              flowVars, detectorVars >>

-----------------------------------------------------------------------------
(* Grids and program constants *)

Unit == 100 * 200
ScaleUnit == 5 * 2

\* Math.max(0.01, ...) in both resize switches
EPS == Unit \div 100

\* Math.min(Math.max(0.5, ...), 5)
ScaleMin == ScaleUnit \div 2
ScaleMax == 5 * ScaleUnit

\* setTransform(t => ({...t, scale: t.scale -/+ 0.5}))
ZoomStep == ScaleUnit \div 2

\* COIN_DIAMETER_MM = 26.0 and ASSUMED_THUMB_WIDTH_MM = 15.0
COIN_DIAMETER_MM == 26
ASSUMED_THUMB_WIDTH_MM == 15

\* pixelsPerMM is held as a multiple of 1/PpmDen
PpmDen == Unit * ASSUMED_THUMB_WIDTH_MM * (COIN_DIAMETER_MM \div 2)

\* activeId === null, pixelsPerMM === undefined
NoIndex == 0
NoImage == 0
Undefined == -1

\* The laid-out (untransformed) size of the container element, in pixels
ContainerW == 500
ContainerH == 400

\* Bounds of the exploration: pointer-down events per specification, and
\* touch points on the screen at once
MaxGestures == 1
MaxSeq == 2
MaxDowns == 3
MaxTouches == 3

-----------------------------------------------------------------------------
(* Arithmetic helpers *)

Max(a, b) == IF a >= b THEN a ELSE b
Min(a, b) == IF a <= b THEN a ELSE b

\* n / d is a whole number of grid steps
Exact(n, d) == d /= 0 /\ n % d = 0

\* Math.sqrt on perfect squares
Sqrt(v) == CHOOSE r \in 0..Unit : r * r = v
IsSquare(v) == \E r \in 0..Unit : r * r = v

Pt(px, py) == [x |-> px, y |-> py]

-----------------------------------------------------------------------------
(* Angles: [q |-> quarter turns, b |-> multiples of beta = atan2(4, 3)] *)

Angle(qq, bb) == [q |-> qq, b |-> bb]
AngleAdd(a1, a2) == Angle(a1.q + a2.q, a1.b + a2.b)
AngleSub(a1, a2) == Angle(a1.q - a2.q, a1.b - a2.b)
AngleNeg(a) == Angle(-a.q, -a.b)

\* 5 * cos and 5 * sin of b * beta, for b in -1..1
BaseCos5(bb) == IF bb = 0 THEN 5 ELSE 3
BaseSin5(bb) == IF bb = 0 THEN 0 ELSE 4 * bb

\* 5 * Math.cos(a) and 5 * Math.sin(a)
Cos5(a) ==
    LET k == a.q % 4
    IN  CASE k = 0 -> BaseCos5(a.b)
          [] k = 1 -> -BaseSin5(a.b)
          [] k = 2 -> -BaseCos5(a.b)
          [] OTHER -> BaseSin5(a.b)

Sin5(a) ==
    LET k == a.q % 4
    IN  CASE k = 0 -> BaseSin5(a.b)
          [] k = 1 -> BaseCos5(a.b)
          [] k = 2 -> -BaseSin5(a.b)
          [] OTHER -> -BaseCos5(a.b)

\* The vectors whose direction is on the angle grid
OnAxes(vy, vx) == vx = 0 \/ vy = 0
OnBeta(vy, vx) ==
    /\ vx /= 0 /\ vy /= 0
    /\ \/ (Exact(vx, 3) /\ Exact(vy, 4) /\ vx \div 3 = vy \div 4)
       \/ (Exact(vx, 4) /\ Exact(vy, 3) /\ -(vx \div 4) = vy \div 3)
InAtan2Domain(vy, vx) == OnAxes(vy, vx) \/ OnBeta(vy, vx)

\* Math.atan2(vy, vx), with range (-pi, pi]
Atan2(vy, vx) ==
    CASE vy = 0 /\ vx >= 0 -> Angle(0, 0)
      [] vy = 0 /\ vx < 0 -> Angle(2, 0)
      [] vx = 0 /\ vy > 0 -> Angle(1, 0)
      [] vx = 0 /\ vy < 0 -> Angle(-1, 0)
      [] vx > 0 /\ vy > 0 -> Angle(0, 1)
      [] vx < 0 /\ vy > 0 -> Angle(1, 1)
      [] vx < 0 /\ vy < 0 -> Angle(-2, 1)
      [] OTHER -> Angle(-1, 1)


-----------------------------------------------------------------------------
(* useHandDetection: estimateNailBounds and detect *)

\* The fingers table: MediaPipe landmark indices of the tip and of the DIP/IP
fingers ==
    << [name |-> "Thumb",  tip |-> 4,  dip |-> 3],
       [name |-> "Index",  tip |-> 8,  dip |-> 7],
       [name |-> "Middle", tip |-> 12, dip |-> 11],
       [name |-> "Ring",   tip |-> 16, dip |-> 15],
       [name |-> "Pinky",  tip |-> 20, dip |-> 19] >>

\* lengthR = 0.7 : 0.85 and aspectR = 1.2 : 1.0, as fractions over 100 and 10
lengthR100(name) == IF name = "Thumb" THEN 70 ELSE 85
aspectR10(name) == IF name = "Thumb" THEN 12 ELSE 10

\* shiftRatio = 0.1, as a divisor
shiftDiv == 2 * 5

\* landmarks is a sequence of 21 points; landmark i is landmarks[i + 1]
Landmark(landmarks, i) == landmarks[i + 1]

\* One element of fingers.map(...)
estimateOne(landmarks, finger) ==
    LET tip == Landmark(landmarks, finger.tip)
        dip == Landmark(landmarks, finger.dip)
        dxDistal == dip.x - tip.x
        dyDistal == dip.y - tip.y
        distalLength == Sqrt(dxDistal * dxDistal + dyDistal * dyDistal)
        fingerAngle == Atan2(dyDistal, dxDistal)
        rotation == AngleSub(fingerAngle, Angle(1, 0))
        nailLength == (distalLength * lengthR100(finger.name)) \div 100
        nailWidth == (nailLength * aspectR10(finger.name)) \div 10
        cx == tip.x + (dxDistal * nailLength) \div (distalLength * shiftDiv)
        cy == tip.y + (dyDistal * nailLength) \div (distalLength * shiftDiv)
    IN  [ finger |-> finger.name,
          width |-> nailWidth,
          length |-> nailLength,
          boundingBox |-> [ x |-> cx, y |-> cy, width |-> nailWidth,
                            height |-> nailLength, rotation |-> rotation ] ]

estimateNailBounds(landmarks) ==
    [ i \in 1..Len(fingers) |-> estimateOne(landmarks, fingers[i]) ]

\* The landmark sets on which estimateOne is exact on the grids
ExactLandmarks(landmarks) ==
    \A i \in 1..Len(fingers) :
        LET tip == Landmark(landmarks, fingers[i].tip)
            dip == Landmark(landmarks, fingers[i].dip)
            dxDistal == dip.x - tip.x
            dyDistal == dip.y - tip.y
            sq == dxDistal * dxDistal + dyDistal * dyDistal
        IN  /\ IsSquare(sq) /\ sq > 0
            /\ InAtan2Domain(dyDistal, dxDistal)
            /\ Exact(Sqrt(sq) * lengthR100(fingers[i].name), 100)
            /\ Exact(((Sqrt(sq) * lengthR100(fingers[i].name)) \div 100)
                        * aspectR10(fingers[i].name), 10)
            /\ Exact(dxDistal * ((Sqrt(sq) * lengthR100(fingers[i].name)) \div 100),
                     Sqrt(sq) * shiftDiv)
            /\ Exact(dyDistal * ((Sqrt(sq) * lengthR100(fingers[i].name)) \div 100),
                     Sqrt(sq) * shiftDiv)

\* detect: result.landmarks.forEach(hand => measurements.push(...estimate(hand)))
RECURSIVE detectMeasurements(_)
detectMeasurements(hands) ==
    IF hands = << >> THEN << >>
    ELSE estimateNailBounds(Head(hands)) \o detectMeasurements(Tail(hands))

\* A hand whose five distal segments all have the vector (ddx, ddy) from tip
\* to DIP, with the tips placed so that the estimated centres are at
\* (cx0 + k * gap, cy0): positions a pointer on the pixel grid can hit.
HandTip(k, ddx, ddy, cx0, cy0, gap) ==
    LET name == fingers[k].name
        len == Sqrt(ddx * ddx + ddy * ddy)
        nailLength == (len * lengthR100(name)) \div 100
    IN  Pt(cx0 + (k - 1) * gap - (ddx * nailLength) \div (len * shiftDiv),
           cy0 - (ddy * nailLength) \div (len * shiftDiv))

Hand(ddx, ddy, cx0, cy0, gap) ==
    [ j \in 1..21 |->
        IF \E k \in 1..Len(fingers) : fingers[k].tip = j - 1
        THEN LET k == CHOOSE k \in 1..Len(fingers) : fingers[k].tip = j - 1
             IN  HandTip(k, ddx, ddy, cx0, cy0, gap)
        ELSE IF \E k \in 1..Len(fingers) : fingers[k].dip = j - 1
        THEN LET k == CHOOSE k \in 1..Len(fingers) : fingers[k].dip = j - 1
                 t == HandTip(k, ddx, ddy, cx0, cy0, gap)
             IN  Pt(t.x + ddx, t.y + ddy)
        ELSE Pt(0, 0) ]

\* The detector results explored: an upright hand, a hand turned by beta and
\* a distant (small) upright hand
DistalVectors == { Pt(0, 1000), Pt(600, 800), Pt(0, 200) }

Hands ==
    { Hand(d.x, d.y, Unit \div 5, Unit \div 2, Unit \div 5) : d \in DistalVectors }

-----------------------------------------------------------------------------
(* App: the implicit (anthropometric) calibration effect and the manual one *)

\* measurements.find(m => m.finger === 'Thumb')
HasThumb(ms) == \E i \in 1..Len(ms) : ms[i].finger = "Thumb"
FirstThumb(ms) ==
    ms[CHOOSE i \in 1..Len(ms) :
          /\ ms[i].finger = "Thumb"
          /\ \A j \in 1..(i - 1) : ms[j].finger /= "Thumb"]

\* (thumb.width * imageSize.width) / ASSUMED_THUMB_WIDTH_MM, in 1/PpmDen
ImpliedRatio(thumb, imgW) ==
    thumb.width * imgW * (PpmDen \div (Unit * ASSUMED_THUMB_WIDTH_MM))

\* Variant of the effect's guards without "if (pixelsPerMM) return"
ImplicitFiresOverwriting(ms, imgW, coin, ppm) ==
    /\ ~coin
    /\ ~(Len(ms) = 0 \/ imgW = 0)
    /\ HasThumb(ms)

\* The guards of the effect, in order; TRUE when it calls setPixelsPerMM
ImplicitFires(ms, imgW, coin, ppm) ==
    /\ ~coin
    /\ ppm = Undefined
    /\ ~(Len(ms) = 0 \/ imgW = 0)
    /\ HasThumb(ms)

\* useEffect(..., [measurements, imageSize.width, showCoinTool]): the value of
\* pixelsPerMM after the effect has run
ImplicitCalibration(ms, imgW, coin, ppm) ==
    IF ImplicitFires(ms, imgW, coin, ppm)
    THEN ImpliedRatio(FirstThumb(ms), imgW)
    ELSE ppm

\* Variant of onCalibrationChange that stores pxPerMM_Screen unscaled
ManualCalibrationOnScreen(d, imgW, renderWidth) ==
    d * (PpmDen \div COIN_DIAMETER_MM)

\* onCalibrationChange(diameter / COIN_DIAMETER_MM): pxPerMM_Screen times
\* imageSize.width / containerRef.current.clientWidth, in 1/PpmDen
ManualCalibration(d, imgW, renderWidth) ==
    IF imgW > 0
    THEN d * imgW * ((PpmDen \div COIN_DIAMETER_MM) \div renderWidth)
    ELSE d * (PpmDen \div COIN_DIAMETER_MM)

-----------------------------------------------------------------------------
(* NailOverlay: geometry of the transformed container *)

\* containerRef.current.getBoundingClientRect() of the div that carries
\* translate(x, y) scale(s) with transform-origin center; the untransformed
\* div has its top-left corner at the viewport origin.  In 1/ScaleUnit pixels.
RectWidth(t) == ContainerW * t.scale
RectHeight(t) == ContainerH * t.scale
RectLeft(t) == t.x * ScaleUnit + ((ScaleUnit - t.scale) * ContainerW) \div 2
RectTop(t) == t.y * ScaleUnit + ((ScaleUnit - t.scale) * ContainerH) \div 2

\* dxPx / rect.width and dyPx / rect.height, in 1/Unit
NormDx(dxPx, t) == (dxPx * ScaleUnit * Unit) \div RectWidth(t)
NormDy(dyPx, t) == (dyPx * ScaleUnit * Unit) \div RectHeight(t)
ExactNorm(dxPx, dyPx, t) ==
    /\ Exact(dxPx * ScaleUnit * Unit, RectWidth(t))
    /\ Exact(dyPx * ScaleUnit * Unit, RectHeight(t))

\* centerX, centerY: rect.left + cxNorm * rect.width, in 1/(ScaleUnit*Unit) px
CenterX(m, t) == RectLeft(t) * Unit + m.boundingBox.x * RectWidth(t)
CenterY(m, t) == RectTop(t) * Unit + m.boundingBox.y * RectHeight(t)
ScreenN(v) == v * ScaleUnit * Unit


-----------------------------------------------------------------------------
(* NailOverlay: the per-mode box updates of handleTouchMove/handleMouseMove *)

RotateExact(initialM, start, p, t) ==
    /\ OnAxes(ScreenN(p.y) - CenterY(initialM, t), ScreenN(p.x) - CenterX(initialM, t))
    /\ OnAxes(ScreenN(start.y) - CenterY(initialM, t),
              ScreenN(start.x) - CenterX(initialM, t))

\* Variant of the rotate branch that turns the box to the pointer's angle
\* instead of by the pointer's turn
RotateBoxToPointer(initialM, start, p, t) ==
    LET centerX == CenterX(initialM, t)
        centerY == CenterY(initialM, t)
        currentAngle == Atan2(ScreenN(p.y) - centerY, ScreenN(p.x) - centerX)
    IN  [initialM EXCEPT
            !.boundingBox.rotation = AngleAdd(initialM.boundingBox.rotation, currentAngle)]

\* if (interactionMode === 'rotate')
RotateBox(initialM, start, p, t) ==
    LET centerX == CenterX(initialM, t)
        centerY == CenterY(initialM, t)
        currentAngle == Atan2(ScreenN(p.y) - centerY, ScreenN(p.x) - centerX)
        startAngle == Atan2(ScreenN(start.y) - centerY, ScreenN(start.x) - centerX)
        deltaRotation == AngleSub(currentAngle, startAngle)
    IN  [initialM EXCEPT
            !.boundingBox.rotation = AngleAdd(initialM.boundingBox.rotation, deltaRotation)]

\* Variant of the drag branch that builds the box without spreading initialM
DragBoxUnlabelled(initialM, start, p, t) ==
    LET dx == NormDx(p.x - start.x, t)
        dy == NormDy(p.y - start.y, t)
    IN  [initialM EXCEPT !.finger = "",
                         !.boundingBox.x = initialM.boundingBox.x + dx,
                         !.boundingBox.y = initialM.boundingBox.y + dy]

\* else if (interactionMode === 'drag')
DragBox(initialM, start, p, t) ==
    LET dx == NormDx(p.x - start.x, t)
        dy == NormDy(p.y - start.y, t)
    IN  [initialM EXCEPT !.boundingBox.x = initialM.boundingBox.x + dx,
                         !.boundingBox.y = initialM.boundingBox.y + dy]

\* localDx, localDy: the normalized delta turned by -rotation
LocalDx(rotation, dx, dy) ==
    (dx * Cos5(AngleNeg(rotation)) - dy * Sin5(AngleNeg(rotation))) \div 5
LocalDy(rotation, dx, dy) ==
    (dx * Sin5(AngleNeg(rotation)) + dy * Cos5(AngleNeg(rotation))) \div 5

\* Variant of the switch whose West case adds localDx to the width
ResizeEdgeWestGrowing(mode, w, h, localDx, localDy) ==
    CASE mode = "resize-e" -> << Max(EPS, w + localDx), h, localDx \div 2, 0 >>
      [] mode = "resize-w" -> << Max(EPS, w + localDx), h, localDx \div 2, 0 >>
      [] mode = "resize-s" -> << w, Max(EPS, h + localDy), 0, localDy \div 2 >>
      [] mode = "resize-n" -> << w, Max(EPS, h - localDy), 0, localDy \div 2 >>
      [] OTHER -> << w, h, 0, 0 >>

\* Variant of the switch without Math.max(0.01, ...)
ResizeEdgeUnclamped(mode, w, h, localDx, localDy) ==
    CASE mode = "resize-e" -> << w + localDx, h, localDx \div 2, 0 >>
      [] mode = "resize-w" -> << w - localDx, h, localDx \div 2, 0 >>
      [] mode = "resize-s" -> << w, h + localDy, 0, localDy \div 2 >>
      [] mode = "resize-n" -> << w, h - localDy, 0, localDy \div 2 >>
      [] OTHER -> << w, h, 0, 0 >>

\* The switch on the edge: <<newW, newH, shiftLocalX, shiftLocalY>>
ResizeEdge(mode, w, h, localDx, localDy) ==
    CASE mode = "resize-e" -> << Max(EPS, w + localDx), h, localDx \div 2, 0 >>
      [] mode = "resize-w" -> << Max(EPS, w - localDx), h, localDx \div 2, 0 >>
      [] mode = "resize-s" -> << w, Max(EPS, h + localDy), 0, localDy \div 2 >>
      [] mode = "resize-n" -> << w, Max(EPS, h - localDy), 0, localDy \div 2 >>
      [] OTHER -> << w, h, 0, 0 >>

\* globalShiftX, globalShiftY: the local shift turned back by rotation
GlobalShiftX(rotation, sx, sy) == (sx * Cos5(rotation) - sy * Sin5(rotation)) \div 5
GlobalShiftY(rotation, sx, sy) == (sx * Sin5(rotation) + sy * Cos5(rotation)) \div 5

IsResize(mode) == mode \in {"resize-n", "resize-s", "resize-e", "resize-w"}

ResizeExact(initialM, mode, start, p, t) ==
    LET bb == initialM.boundingBox
        dx == NormDx(p.x - start.x, t)
        dy == NormDy(p.y - start.y, t)
        na == AngleNeg(bb.rotation)
        r == ResizeEdge(mode, bb.width, bb.height,
                        LocalDx(bb.rotation, dx, dy), LocalDy(bb.rotation, dx, dy))
    IN  /\ ExactNorm(p.x - start.x, p.y - start.y, t)
        /\ bb.rotation.b \in -1..1
        /\ Exact(dx * Cos5(na) - dy * Sin5(na), 5)
        /\ Exact(dx * Sin5(na) + dy * Cos5(na), 5)
        /\ Exact(LocalDx(bb.rotation, dx, dy), 2)
        /\ Exact(LocalDy(bb.rotation, dx, dy), 2)
        /\ Exact(r[3] * Cos5(bb.rotation) - r[4] * Sin5(bb.rotation), 5)
        /\ Exact(r[3] * Sin5(bb.rotation) + r[4] * Cos5(bb.rotation), 5)

\* Variant of the resize branch that keeps the aspect of the box: the other
\* extent follows the resized one
ResizeBoxBothExtents(initialM, mode, start, p, t) ==
    LET bb == initialM.boundingBox
        dx == NormDx(p.x - start.x, t)
        dy == NormDy(p.y - start.y, t)
        r == ResizeEdge(mode, bb.width, bb.height,
                        LocalDx(bb.rotation, dx, dy), LocalDy(bb.rotation, dx, dy))
    IN  [initialM EXCEPT
            !.boundingBox.width = r[1] + (r[2] - bb.height),
            !.boundingBox.height = r[2] + (r[1] - bb.width),
            !.boundingBox.x = bb.x + GlobalShiftX(bb.rotation, r[3], r[4]),
            !.boundingBox.y = bb.y + GlobalShiftY(bb.rotation, r[3], r[4])]

\* else if (interactionMode.startsWith('resize'))
ResizeBox(initialM, mode, start, p, t) ==
    LET bb == initialM.boundingBox
        dx == NormDx(p.x - start.x, t)
        dy == NormDy(p.y - start.y, t)
        r == ResizeEdge(mode, bb.width, bb.height,
                        LocalDx(bb.rotation, dx, dy), LocalDy(bb.rotation, dx, dy))
    IN  [initialM EXCEPT
            !.boundingBox.width = r[1],
            !.boundingBox.height = r[2],
            !.boundingBox.x = bb.x + GlobalShiftX(bb.rotation, r[3], r[4]),
            !.boundingBox.y = bb.y + GlobalShiftY(bb.rotation, r[3], r[4])]

\* The inputs of a box update that stay on the grids
UpdateExact(initialM, mode, start, p, t) ==
    CASE mode = "rotate" -> RotateExact(initialM, start, p, t)
      [] mode = "drag" -> ExactNorm(p.x - start.x, p.y - start.y, t)
      [] IsResize(mode) -> ResizeExact(initialM, mode, start, p, t)
      [] OTHER -> TRUE

\* Variant of newMeasurements that maps the update over the whole list
NewMeasurementsShared(ms, id, initialM, mode, start, p, t) ==
    CASE mode = "rotate" -> [i \in 1..Len(ms) |-> RotateBox(initialM, start, p, t)]
      [] mode = "drag" -> [i \in 1..Len(ms) |-> DragBox(initialM, start, p, t)]
      [] IsResize(mode) ->
            [i \in 1..Len(ms) |-> ResizeBox(initialM, mode, start, p, t)]
      [] OTHER -> ms

\* newMeasurements: [...measurements] with newMeasurements[activeId] replaced
NewMeasurements(ms, id, initialM, mode, start, p, t) ==
    CASE mode = "rotate" -> [ms EXCEPT ![id] = RotateBox(initialM, start, p, t)]
      [] mode = "drag" -> [ms EXCEPT ![id] = DragBox(initialM, start, p, t)]
      [] IsResize(mode) -> [ms EXCEPT ![id] = ResizeBox(initialM, mode, start, p, t)]
      [] OTHER -> ms

-----------------------------------------------------------------------------
(* Inputs *)

\* Pointer positions (clientX, clientY): a cross around the point (100, 200),
\* which is where the first box of every explored hand is drawn at scale 1
Points == { Pt(100, 200), Pt(150, 200), Pt(50, 200), Pt(100, 150), Pt(100, 250) }

\* Where a pointer goes down: on the first box's centre, or above it, where
\* its rotate handle is
DownPoints == { Pt(100, 200), Pt(100, 150) }

\* e.deltaY of a wheel event: zoom factors 2, 0, -1 and 6
WheelDeltas == { -1000, 1000, 2000, -5000 }

\* Math.hypot of the two touch points, in pixels
PinchDists == { 0, 100, 200 }

\* The handlers bound to a box: its body, its four edge handles, its rotate handle
BoxModes == { "drag", "resize-n", "resize-s", "resize-e", "resize-w", "rotate" }

\* Native image sizes
ImageSizes == { [width |-> 4000, height |-> 3000] }

-----------------------------------------------------------------------------
(* NailOverlay: handlers *)

overlayRefs == << panStartRef, panStartTransformRef, dragStartRef,
                  initialMeasurementRef, pinchStartDistRef, pinchStartScaleRef >>
gestureState == << isPanning, activeId, interactionMode >>
calibration == << pixelsPerMM, calSource >>
pointers == << touches, touchDist >>

\* Variant of onMeasurementsChange in which an implied calibration follows the
\* edited Thumb box
onMeasurementsChangeRecalibrating(newMeasurements) ==
    /\ measurements' = newMeasurements
    /\ pixelsPerMM' =
          IF ~showCoinTool /\ calSource = "implied" /\ HasThumb(newMeasurements)
          THEN FirstThumb(newMeasurements).boundingBox.width * imageSize.width
                  * (PpmDen \div (Unit * ASSUMED_THUMB_WIDTH_MM))
          ELSE pixelsPerMM
    /\ calSource' = calSource

\* onMeasurementsChange(newMeasurements) = App's setMeasurements, followed by
\* the implicit calibration effect, which has measurements as a dependency
onMeasurementsChange(newMeasurements) ==
    /\ measurements' = newMeasurements
    /\ pixelsPerMM' =
          ImplicitCalibration(newMeasurements, imageSize.width, showCoinTool, pixelsPerMM)
    /\ calSource' =
          IF ImplicitFires(newMeasurements, imageSize.width, showCoinTool, pixelsPerMM)
          THEN "implied" ELSE calSource

\* Variant of the clamp without Math.max(0.5, ...)
ClampedScaleNoFloor(num, den) ==
    IF num >= ScaleMax * den THEN ScaleMax ELSE num \div den

\* newScale of handleWheel, as a clamped quotient num / den
ClampedScale(num, den) ==
    IF num <= ScaleMin * den THEN ScaleMin
    ELSE IF num >= ScaleMax * den THEN ScaleMax
    ELSE num \div den
ExactScale(num, den) ==
    (ScaleMin * den < num /\ num < ScaleMax * den) => Exact(num, den)

\* const newScale = Math.min(Math.max(0.5, transform.scale * (1 + scaleAmount)), 5)
WheelScale(scale, deltaY) == ClampedScale(scale * (1000 - deltaY), 1000)

\* Variant of handleWheel that keeps the canvas point under the origin fixed
handleWheelAnchored(deltaY) ==
    /\ ExactScale(transform.scale * (1000 - deltaY), 1000)
    /\ LET newScale == WheelScale(transform.scale, deltaY)
       IN  transform' = [scale |-> newScale,
                         x |-> (transform.x * newScale) \div transform.scale,
                         y |-> (transform.y * newScale) \div transform.scale]
    /\ lastEvent' = "wheel"
    /\ UNCHANGED << measurements, calibration, appVars, overlayRefs, gestureState,
                    pointers, nDown >>

handleWheel(deltaY) ==
    /\ ExactScale(transform.scale * (1000 - deltaY), 1000)
    /\ transform' = [transform EXCEPT !.scale = WheelScale(transform.scale, deltaY)]
    /\ lastEvent' = "wheel"
    /\ UNCHANGED << measurements, calibration, appVars, overlayRefs, gestureState,
                    pointers, nDown >>

\* The branch taken for index === null, and the one for a box, shared by
\* handleMouseDown and the single-touch part of handleTouchStart
StartPan(p) ==
    /\ isPanning' = TRUE
    /\ panStartRef' = p
    /\ panStartTransformRef' = Pt(transform.x, transform.y)
    /\ UNCHANGED << activeId, interactionMode, dragStartRef, initialMeasurementRef >>

\* Variant of the box branch in which the down event also reaches the
\* container's handler
StartBoxAndPan(p, index, mode) ==
    /\ activeId' = index
    /\ interactionMode' = mode
    /\ dragStartRef' = p
    /\ initialMeasurementRef' = << measurements[index] >>
    /\ isPanning' = TRUE
    /\ panStartRef' = p
    /\ panStartTransformRef' = Pt(transform.x, transform.y)

StartBox(p, index, mode) ==
    /\ activeId' = index
    /\ interactionMode' = mode
    /\ dragStartRef' = p
    /\ initialMeasurementRef' = << measurements[index] >>
    /\ UNCHANGED << isPanning, panStartRef, panStartTransformRef >>

handleMouseDown(p, index, mode) ==
    /\ index = NoIndex \/ index \in 1..Len(measurements)
    /\ IF index = NoIndex THEN StartPan(p) ELSE StartBox(p, index, mode)
    /\ nDown' = nDown + 1
    /\ lastEvent' = "mouseDown"
    /\ UNCHANGED << measurements, calibration, appVars, transform,
                    pinchStartDistRef, pinchStartScaleRef, pointers >>

\* Variant of the pan branch that takes the pointer delta in canvas pixels
PanTransformUnscaled(t, start, startT, p) ==
    [t EXCEPT !.x = startT.x + ((p.x - start.x) * ScaleUnit) \div t.scale,
              !.y = startT.y + ((p.y - start.y) * ScaleUnit) \div t.scale]

\* setTransform({...transform, x: panStartTransformRef.current.x + dx, ...})
PanTransform(t, start, startT, p) ==
    [t EXCEPT !.x = startT.x + (p.x - start.x), !.y = startT.y + (p.y - start.y)]

\* handleMouseMove ends after building newMeasurements: it has no
\* onMeasurementsChange call, so outside panning it changes no state
handleMouseMove(p) ==
    /\ IF isPanning
       THEN transform' = PanTransform(transform, panStartRef, panStartTransformRef, p)
       ELSE UNCHANGED transform
    /\ lastEvent' = "mouseMove"
    /\ UNCHANGED << measurements, calibration, appVars, overlayRefs, gestureState,
                    pointers, nDown >>

\* handleMouseUp, also bound to onMouseLeave
handleMouseUp ==
    /\ isPanning' = FALSE
    /\ activeId' = NoIndex
    /\ interactionMode' = "none"
    /\ lastEvent' = "mouseUp"
    /\ UNCHANGED << measurements, calibration, appVars, transform, overlayRefs,
                    pointers, nDown >>

\* getPinchDist(e): Math.hypot of the first two touch points, 0 with fewer
getPinchDist(n, dist) == IF n < 2 THEN 0 ELSE dist

\* Variant of the pinch start that leaves the single-pointer gesture alone
StartPinchKeepingGesture(dist) ==
    /\ pinchStartDistRef' = getPinchDist(2, dist)
    /\ pinchStartScaleRef' = transform.scale
    /\ UNCHANGED << isPanning, activeId, interactionMode, panStartRef,
                    panStartTransformRef, dragStartRef, initialMeasurementRef >>

\* "Handle Pinch Start (2 fingers)": the branch for e.touches.length === 2
StartPinch(dist) ==
    /\ pinchStartDistRef' = getPinchDist(2, dist)
    /\ pinchStartScaleRef' = transform.scale
    /\ isPanning' = FALSE
    /\ activeId' = NoIndex
    /\ interactionMode' = "none"
    /\ UNCHANGED << panStartRef, panStartTransformRef, dragStartRef,
                    initialMeasurementRef >>

\* e.touches.length after the new touch point is down is touches + 1; p is
\* e.touches[0] and dist is the distance of e.touches[0] and e.touches[1]
handleTouchStart(p, dist, index, mode) ==
    /\ touches < MaxTouches
    /\ index = NoIndex \/ index \in 1..Len(measurements)
    /\ touches' = touches + 1
    /\ touchDist' = IF touches + 1 = 2 THEN dist ELSE 0
    /\ nDown' = nDown + 1
    /\ IF touches + 1 = 2
       THEN StartPinch(dist)
       ELSE /\ IF index = NoIndex THEN StartPan(p) ELSE StartBox(p, index, mode)
            /\ UNCHANGED << pinchStartDistRef, pinchStartScaleRef >>
    /\ lastEvent' = "touchStart"
    /\ UNCHANGED << measurements, calibration, appVars, transform >>

\* Variant of the pinch scale that applies the distance ratio to zoom 1
PinchScaleFromUnit(startScale, dist, startDist) ==
    ClampedScale(ScaleUnit * dist, startDist)

\* Variant of the pinch guard that tests the start distance only
PinchGuardStartOnly(startDist, dist) == startDist > 0

\* if (pinchStartDistRef.current > 0 && dist > 0)
PinchGuard(startDist, dist) == startDist > 0 /\ dist > 0

\* const newScale = Math.min(Math.max(0.5, pinchStartScaleRef.current * scaleRatio), 5)
PinchScale(startScale, dist, startDist) == ClampedScale(startScale * dist, startDist)

\* The guard of "3. Handle Object Interactions"
ObjectGuard ==
    /\ activeId /= NoIndex
    /\ interactionMode /= "none"
    /\ initialMeasurementRef /= << >>

handleTouchMove(p, dist) ==
    /\ touches >= 1
    /\ touchDist' = IF touches = 2 THEN dist ELSE 0
    /\ IF touches = 2
       THEN /\ IF PinchGuard(pinchStartDistRef, getPinchDist(2, dist))
               THEN /\ ExactScale(pinchStartScaleRef * dist, pinchStartDistRef)
                    /\ transform' =
                          [transform EXCEPT !.scale =
                              PinchScale(pinchStartScaleRef, getPinchDist(2, dist),
                                         pinchStartDistRef)]
               ELSE UNCHANGED transform
            /\ UNCHANGED << measurements, calibration >>
       ELSE IF isPanning
       THEN /\ transform' = PanTransform(transform, panStartRef, panStartTransformRef, p)
            /\ UNCHANGED << measurements, calibration >>
       ELSE IF ~ObjectGuard
       THEN UNCHANGED << transform, measurements, calibration >>
       ELSE /\ UpdateExact(initialMeasurementRef[1], interactionMode, dragStartRef,
                           p, transform)
            /\ onMeasurementsChange(
                  NewMeasurements(measurements, activeId, initialMeasurementRef[1],
                                  interactionMode, dragStartRef, p, transform))
            /\ UNCHANGED transform
    /\ lastEvent' = "touchMove"
    /\ UNCHANGED << appVars, overlayRefs, gestureState, touches, nDown >>

\* Variant of handleTouchEnd that ends the gesture with the last finger only
handleTouchEndOfLast ==
    /\ touches >= 1
    /\ touches' = touches - 1
    /\ touchDist' = 0
    /\ isPanning' = (touches > 1 /\ isPanning)
    /\ activeId' = IF touches > 1 THEN activeId ELSE NoIndex
    /\ interactionMode' = IF touches > 1 THEN interactionMode ELSE "none"
    /\ lastEvent' = "touchEnd"
    /\ UNCHANGED << measurements, calibration, appVars, transform, overlayRefs,
                    nDown >>

\* One touch point is lifted
handleTouchEnd ==
    /\ touches >= 1
    /\ touches' = touches - 1
    /\ touchDist' = 0
    /\ isPanning' = FALSE
    /\ activeId' = NoIndex
    /\ interactionMode' = "none"
    /\ lastEvent' = "touchEnd"
    /\ UNCHANGED << measurements, calibration, appVars, transform, overlayRefs,
                    nDown >>

\* The "-", "+" and "Reset" buttons of the zoom controls
ZoomOutScale(scale) == Max(ScaleMin, scale - ZoomStep)
ZoomInScale(scale) == Min(ScaleMax, scale + ZoomStep)
InitialTransform == [scale |-> ScaleUnit, x |-> 0, y |-> 0]

zoomOutClick ==
    /\ transform' = [transform EXCEPT !.scale = ZoomOutScale(transform.scale)]
    /\ lastEvent' = "zoomOut"
    /\ UNCHANGED << measurements, calibration, appVars, overlayRefs, gestureState,
                    pointers, nDown >>

zoomInClick ==
    /\ transform' = [transform EXCEPT !.scale = ZoomInScale(transform.scale)]
    /\ lastEvent' = "zoomIn"
    /\ UNCHANGED << measurements, calibration, appVars, overlayRefs, gestureState,
                    pointers, nDown >>

resetClick ==
    /\ transform' = InitialTransform
    /\ lastEvent' = "reset"
    /\ UNCHANGED << measurements, calibration, appVars, overlayRefs, gestureState,
                    pointers, nDown >>

-----------------------------------------------------------------------------
(* App: the coin tool toggle, with the effects its render triggers *)

\* CoinOverlay's centring effect: clientWidth / 2 - diameter / 2 and the same
\* for the height, on the overlay's layout box (the unscaled canvas)
CenteredPosition(d) == Pt((ContainerW - d) \div 2, (ContainerH - d) \div 2)

\* onClick={() => setShowCoinTool(!showCoinTool)}.  CoinOverlay's effect on
\* [diameter, isVisible] runs first and calls onCalibrationChange when the tool
\* is now visible; App's effect on [..., showCoinTool] runs next, on the
\* pixelsPerMM of the render that was committed.
toggleCoinTool ==
    /\ appMode = "result" /\ ~isAnalyzing
    /\ showCoinTool' = ~showCoinTool
    /\ LET manual == ManualCalibration(diameter, imageSize.width, ContainerW)
           fires == ImplicitFires(measurements, imageSize.width, ~showCoinTool,
                                  pixelsPerMM)
       IN  /\ pixelsPerMM' =
                 IF fires
                 THEN ImplicitCalibration(measurements, imageSize.width,
                                          ~showCoinTool, pixelsPerMM)
                 ELSE IF ~showCoinTool THEN manual ELSE pixelsPerMM
           /\ calSource' =
                 IF fires THEN "implied"
                 ELSE IF ~showCoinTool THEN "manual" ELSE calSource
    /\ position' = IF ~showCoinTool /\ ~initialized
                    THEN CenteredPosition(diameter) ELSE position
    /\ initialized' = (initialized \/ ~showCoinTool)
    /\ lastEvent' = "toggleCoin"
    /\ UNCHANGED << measurements, imageSize, diameter, isDragging, isResizing,
                    coinDragStartRef, highlightedIndex, detected, flowVars,
                    detectorVars, transform,
                    overlayRefs, gestureState, pointers, nDown >>

-----------------------------------------------------------------------------
(* CoinOverlay: the handlers of the reference disk, rendered while isVisible *)

\* NailOverlay is rendered for mode === 'result' && imageSrc, unless isAnalyzing
OverlayMounted == appMode = "result" /\ imageSrc /= NoImage /\ ~isAnalyzing

\* Math.max(20, ...) of the resize branch
MinDiameter == 20

\* dx and dy of handleMouseMove: the pointer delta divided by the scale prop
CoinDelta(start, p, scale) ==
    Pt(((p.x - start.x) * ScaleUnit) \div scale,
       ((p.y - start.y) * ScaleUnit) \div scale)
ExactCoinDelta(start, p, scale) ==
    /\ Exact((p.x - start.x) * ScaleUnit, scale)
    /\ Exact((p.y - start.y) * ScaleUnit, scale)

\* Variant of the resize branch without Math.max(20, ...)
ResizedDiameterNoFloor(prev, dx, dy) == prev + Max(dx, dy)

\* setDiameter(prev => Math.max(20, prev + Math.max(dx, dy)))
ResizedDiameter(prev, dx, dy) == Max(MinDiameter, prev + Max(dx, dy))

\* Variant of the branches in which a drag resizes the disk as well
NewDiameterWhileDragging(dragging, resizing, prev, dx, dy) ==
    IF dragging \/ resizing THEN ResizedDiameter(prev, dx, dy) ELSE prev

\* if (isDragging) ... else if (isResizing) ...: the diameter and the position
\* after a move
NewDiameter(dragging, resizing, prev, dx, dy) ==
    IF ~dragging /\ resizing THEN ResizedDiameter(prev, dx, dy) ELSE prev
NewPosition(dragging, prev, dx, dy) ==
    IF dragging THEN Pt(prev.x + dx, prev.y + dy) ELSE prev

\* handleMouseDown(e, mode) on the disk ('drag') or on its handle ('resize');
\* the event is stopped and does not reach NailOverlay
coinMouseDown(p, mode) ==
    /\ OverlayMounted /\ showCoinTool
    /\ isDragging' = (isDragging \/ mode = "drag")
    /\ isResizing' = (isResizing \/ mode = "resize")
    /\ coinDragStartRef' = p
    /\ nDown' = nDown + 1
    /\ lastEvent' = "coinDown"
    /\ UNCHANGED << measurements, calibration, imageSize, showCoinTool, diameter,
                    position, initialized, highlightedIndex, detected, flowVars,
                    detectorVars, transform, overlayRefs, gestureState, pointers >>

\* handleMouseMove on the overlay.  Outside a disk gesture it returns before
\* stopPropagation and NailOverlay's handleMouseMove runs on the same event.
\* In a gesture it moves or resizes the disk; the effect on [diameter,
\* isVisible] then calls onCalibrationChange when the diameter has changed.
coinMouseMove(p) ==
    /\ OverlayMounted /\ showCoinTool
    /\ IF ~isDragging /\ ~isResizing
       THEN /\ transform' =
                  IF isPanning
                  THEN PanTransform(transform, panStartRef, panStartTransformRef, p)
                  ELSE transform
            /\ UNCHANGED << calibration, diameter, position, coinDragStartRef >>
       ELSE LET d == CoinDelta(coinDragStartRef, p, transform.scale)
                newDiameter == NewDiameter(isDragging, isResizing, diameter, d.x, d.y)
            IN  /\ ExactCoinDelta(coinDragStartRef, p, transform.scale)
                /\ position' = NewPosition(isDragging, position, d.x, d.y)
                /\ diameter' = newDiameter
                /\ coinDragStartRef' = p
                /\ pixelsPerMM' =
                      IF newDiameter /= diameter
                      THEN ManualCalibration(newDiameter, imageSize.width, ContainerW)
                      ELSE pixelsPerMM
                /\ calSource' = IF newDiameter /= diameter THEN "manual" ELSE calSource
                /\ UNCHANGED transform
    /\ lastEvent' = "coinMove"
    /\ UNCHANGED << measurements, imageSize, showCoinTool, initialized, isDragging,
                    isResizing, highlightedIndex, detected, flowVars, detectorVars,
                    overlayRefs, gestureState, pointers, nDown >>

\* handleMouseUp of the overlay, also bound to onMouseLeave; the event goes on
\* to NailOverlay's handleMouseUp
coinMouseUp ==
    /\ OverlayMounted /\ showCoinTool
    /\ isDragging' = FALSE
    /\ isResizing' = FALSE
    /\ isPanning' = FALSE
    /\ activeId' = NoIndex
    /\ interactionMode' = "none"
    /\ lastEvent' = "coinUp"
    /\ UNCHANGED << measurements, calibration, imageSize, showCoinTool, diameter,
                    position, initialized, coinDragStartRef, highlightedIndex,
                    detected, flowVars, detectorVars, transform, overlayRefs,
                    pointers, nDown >>

-----------------------------------------------------------------------------
(* One analysis session: from the mount of NailOverlay on a detected image *)

\* The state in which NailOverlay mounts after analyzeImage has stored the
\* image size and the detector's measurements and the effects have run
InitSession ==
    /\ measurements \in
          { detectMeasurements(<< h >>) : h \in { g \in Hands : ExactLandmarks(g) } }
    /\ detected = measurements
    /\ imageSize \in ImageSizes
    /\ showCoinTool = FALSE
    /\ appMode = "result"
    /\ imageSrc = 1
    /\ isAnalyzing = FALSE
    /\ landmarker = TRUE
    /\ isModelLoading = FALSE
    /\ modelError = FALSE
    /\ readers = {}
    /\ loads = {}
    /\ pixelsPerMM = ImplicitCalibration(measurements, imageSize.width, FALSE, Undefined)
    /\ calSource =
          IF ImplicitFires(measurements, imageSize.width, FALSE, Undefined)
          THEN "implied" ELSE "none"
    /\ transform = InitialTransform
    /\ isPanning = FALSE
    /\ panStartRef = Pt(0, 0)
    /\ panStartTransformRef = Pt(0, 0)
    /\ activeId = NoIndex
    /\ interactionMode = "none"
    /\ dragStartRef = Pt(0, 0)
    /\ initialMeasurementRef = << >>
    /\ pinchStartDistRef = 0
    /\ pinchStartScaleRef = ScaleUnit
    /\ diameter = 100
    /\ position = Pt(0, 0)
    /\ initialized = FALSE
    /\ isDragging = FALSE
    /\ isResizing = FALSE
    /\ coinDragStartRef = Pt(0, 0)
    /\ highlightedIndex = NoIndex
    /\ touches = 0
    /\ touchDist = 0
    /\ nDown = 0
    /\ lastEvent = "mount"

-----------------------------------------------------------------------------
(* Specifications.  Each explores one part of the session's input space.    *)

\* The boxes a pointer-down is delivered to
Targets == 1..2

\* What a touch event carries that its handler reads: with two touch points
\* only their distance, otherwise only the position of e.touches[0]
TouchInputs(n, points) ==
    IF n = 2 THEN { << Pt(0, 0), d >> : d \in PinchDists }
    ELSE { << p, 0 >> : p \in points }

\* SpecGesture: one gesture of any kind on a box or on the background, by
\* touch or by mouse, at the mounted zoom or after a wheel step to twice it
\* that precedes the gesture
ZoomInDeltas == { -1000 }

NextGesture ==
    \/ \E d \in ZoomInDeltas : nDown = 0 /\ transform.scale = ScaleUnit /\ handleWheel(d)
    \/ \E p \in DownPoints : nDown < MaxGestures /\ handleMouseDown(p, NoIndex, "pan")
    \/ \E p \in DownPoints, i \in Targets, m \in BoxModes :
          nDown < MaxGestures /\ handleMouseDown(p, i, m)
    \/ \E p \in Points : handleMouseMove(p)
    \/ handleMouseUp
    \/ \E in \in TouchInputs(touches + 1, DownPoints) :
          nDown < MaxGestures /\ handleTouchStart(in[1], in[2], NoIndex, "pan")
    \/ \E in \in TouchInputs(touches + 1, DownPoints), i \in Targets, m \in BoxModes :
          nDown < MaxGestures /\ handleTouchStart(in[1], in[2], i, m)
    \/ \E in \in TouchInputs(touches, Points) : handleTouchMove(in[1], in[2])
    \/ handleTouchEnd

SpecGesture == InitSession /\ [][NextGesture]_vars

\* SpecResize: successive resize gestures on the east and west edges of the
\* first box
EastWest == { "resize-e", "resize-w" }

NextResize ==
    \/ \E p \in DownPoints, m \in EastWest :
          nDown < MaxSeq /\ touches = 0 /\ handleTouchStart(p, 0, 1, m)
    \/ \E p \in Points : touches = 1 /\ handleTouchMove(p, 0)
    \/ handleTouchEnd

SpecResize == InitSession /\ [][NextResize]_vars

\* SpecMulti: pointer-downs of mouse and touch interleaved, up to MaxTouches
\* touch points, on the background and on the body of the first box
MultiPoints == { Pt(100, 200), Pt(150, 200) }
MultiDown == { Pt(100, 200) }
UprightHand == Hand(0, 1000, Unit \div 5, Unit \div 2, Unit \div 5)

InitMulti == InitSession /\ measurements = detectMeasurements(<< UprightHand >>)

NextMulti ==
    \/ \E p \in MultiDown : nDown < MaxDowns /\ handleMouseDown(p, NoIndex, "pan")
    \/ \E p \in MultiDown : nDown < MaxDowns /\ handleMouseDown(p, 1, "drag")
    \/ \E p \in MultiPoints : handleMouseMove(p)
    \/ handleMouseUp
    \/ \E in \in TouchInputs(touches + 1, MultiDown) :
          nDown < MaxDowns /\ handleTouchStart(in[1], in[2], NoIndex, "pan")
    \/ \E in \in TouchInputs(touches + 1, MultiDown) :
          nDown < MaxDowns /\ handleTouchStart(in[1], in[2], 1, "drag")
    \/ \E in \in TouchInputs(touches, MultiPoints) : handleTouchMove(in[1], in[2])
    \/ handleTouchEnd

SpecMulti == InitMulti /\ [][NextMulti]_vars

\* SpecFrame: touch gestures of every kind on two boxes and the background,
\* with a second touch point
NextFrame ==
    \/ \E in \in TouchInputs(touches + 1, DownPoints) :
          nDown < MaxSeq /\ handleTouchStart(in[1], in[2], NoIndex, "pan")
    \/ \E in \in TouchInputs(touches + 1, DownPoints), i \in Targets, m \in BoxModes :
          nDown < MaxSeq /\ handleTouchStart(in[1], in[2], i, m)
    \/ \E in \in TouchInputs(touches, Points) : handleTouchMove(in[1], in[2])
    \/ handleTouchEnd

SpecFrame == InitMulti /\ [][NextFrame]_vars

\* SpecRotate: successive one-finger gestures on the rotate handle of the
\* first box.  The handle is drawn in the box's frame, above its top edge:
\* seen from the centre it lies in the direction rotation - pi/2.
RotateDown == { Pt(100, 150), Pt(150, 200), Pt(100, 250), Pt(50, 200) }

OnRotateHandle(m, p, t) ==
    LET up == AngleSub(m.boundingBox.rotation, Angle(1, 0))
        vx == ScreenN(p.x) - CenterX(m, t)
        vy == ScreenN(p.y) - CenterY(m, t)
    IN  /\ vx /= 0 \/ vy /= 0
        /\ Atan2(vy, vx).b = 0
        /\ Cos5(Atan2(vy, vx)) = Cos5(up)
        /\ Sin5(Atan2(vy, vx)) = Sin5(up)

NextRotate ==
    \/ \E p \in RotateDown :
          /\ nDown < MaxDowns
          /\ touches = 0
          /\ OnRotateHandle(measurements[1], p, transform)
          /\ handleTouchStart(p, 0, 1, "rotate")
    \/ \E p \in Points : touches = 1 /\ handleTouchMove(p, 0)
    \/ handleTouchEnd

SpecRotate == InitSession /\ [][NextRotate]_vars

\* SpecView: everything that writes the view transform
NextView ==
    \/ \E d \in WheelDeltas : handleWheel(d)
    \/ \E p \in MultiDown : nDown < MaxSeq /\ handleMouseDown(p, NoIndex, "pan")
    \/ \E p \in MultiPoints : handleMouseMove(p)
    \/ handleMouseUp
    \/ \E in \in TouchInputs(touches + 1, MultiDown) :
          nDown < MaxSeq /\ handleTouchStart(in[1], in[2], NoIndex, "pan")
    \/ \E in \in TouchInputs(touches, MultiPoints) : handleTouchMove(in[1], in[2])
    \/ handleTouchEnd
    \/ zoomOutClick
    \/ zoomInClick
    \/ resetClick

SpecView == InitMulti /\ [][NextView]_vars

\* SpecCalib: the coin tool toggled between gestures on the Thumb box
CalibModes == { "drag", "resize-e", "rotate" }

NextCalib ==
    \/ toggleCoinTool
    \/ \E p \in DownPoints, m \in CalibModes :
          nDown < MaxSeq /\ touches = 0 /\ handleTouchStart(p, 0, 1, m)
    \/ \E p \in Points : touches = 1 /\ handleTouchMove(p, 0)
    \/ handleTouchEnd

SpecCalib == InitSession /\ [][NextCalib]_vars

\* SpecCoin: the reference disk dragged and resized, with wheel zoom and
\* mouse pan of the canvas, the tool opened and closed in between
CoinModes == { "drag", "resize" }
CoinPoints == { Pt(250, 200), Pt(300, 250), Pt(100, 50) }
CoinDown == { Pt(250, 200) }

NextCoin ==
    \/ toggleCoinTool
    \/ \E p \in CoinDown, m \in CoinModes : nDown < MaxSeq /\ coinMouseDown(p, m)
    \/ \E p \in CoinPoints : coinMouseMove(p)
    \/ coinMouseUp
    \/ \E d \in ZoomInDeltas : handleWheel(d)
    \/ \E p \in CoinDown : nDown < MaxSeq /\ handleMouseDown(p, NoIndex, "pan")

SpecCoin == InitMulti /\ [][NextCoin]_vars

-----------------------------------------------------------------------------
(* App and useHandDetection: acquisition, analysis and reset *)

\* The images offered to the application: native size and the hands the
\* landmarker finds in them (result.landmarks)
ImageIds == 1..3
TurnedHand == Hand(600, 800, Unit \div 5, Unit \div 2, Unit \div 5)
SmallHand == Hand(0, 200, Unit \div 5, Unit \div 2, Unit \div 5)
Image(id) ==
    CASE id = 1 -> [width |-> 4000, height |-> 3000, hands |-> << UprightHand >>]
      [] id = 2 -> [width |-> 2000, height |-> 1500,
                    hands |-> << TurnedHand, SmallHand >>]
      [] OTHER -> [width |-> 4000, height |-> 3000, hands |-> << >>]

\* The state of a NailOverlay (and of the CoinOverlay in it) that is not
\* mounted: the values its next mount starts from
OverlayUnmounts ==
    /\ transform' = InitialTransform
    /\ isPanning' = FALSE
    /\ panStartRef' = Pt(0, 0)
    /\ panStartTransformRef' = Pt(0, 0)
    /\ activeId' = NoIndex
    /\ interactionMode' = "none"
    /\ dragStartRef' = Pt(0, 0)
    /\ initialMeasurementRef' = << >>
    /\ pinchStartDistRef' = 0
    /\ pinchStartScaleRef' = ScaleUnit
    /\ diameter' = 100
    /\ position' = Pt(0, 0)
    /\ initialized' = FALSE
    /\ isDragging' = FALSE
    /\ isResizing' = FALSE
    /\ coinDragStartRef' = Pt(0, 0)

\* App's calibration effect after a render: it runs when one of its
\* dependencies [measurements, imageSize.width, showCoinTool] has changed
EffectCalibration(changed, ms, imgW, coin, ppm) ==
    IF changed THEN ImplicitCalibration(ms, imgW, coin, ppm) ELSE ppm
EffectSource(changed, ms, imgW, coin, ppm, source) ==
    IF changed /\ ImplicitFires(ms, imgW, coin, ppm) THEN "implied" ELSE source

\* initLandmarker: HandLandmarker.createFromOptions resolves or rejects
landmarkerLoaded ==
    /\ isModelLoading
    /\ landmarker' = TRUE
    /\ isModelLoading' = FALSE
    /\ lastEvent' = "landmarkerLoaded"
    /\ UNCHANGED << measurements, calibration, imageSize, showCoinTool,
                    coinState, highlightedIndex,
                    detected, flowVars, modelError, transform, overlayRefs,
                    gestureState, pointers, nDown >>

\* Variant of the catch branch without setIsLoading(false)
landmarkerFailedStillLoading ==
    /\ isModelLoading
    /\ ~modelError
    /\ modelError' = TRUE
    /\ lastEvent' = "landmarkerFailed"
    /\ UNCHANGED << measurements, calibration, imageSize, showCoinTool,
                    coinState, highlightedIndex, detected, flowVars, landmarker,
                    isModelLoading, transform, overlayRefs, gestureState,
                    pointers, nDown >>

landmarkerFailed ==
    /\ isModelLoading
    /\ modelError' = TRUE
    /\ isModelLoading' = FALSE
    /\ lastEvent' = "landmarkerFailed"
    /\ UNCHANGED << measurements, calibration, imageSize, showCoinTool,
                    coinState, highlightedIndex,
                    detected, flowVars, landmarker, transform, overlayRefs,
                    gestureState, pointers, nDown >>

\* The Take Photo and Upload Image cards, and Cancel / close
setMode(from, to) ==
    /\ appMode = from
    /\ from = "home" => ~isModelLoading
    /\ appMode' = to
    /\ lastEvent' = "setMode"
    /\ UNCHANGED << measurements, calibration, imageSize, showCoinTool,
                    coinState, highlightedIndex,
                    detected, imageSrc, isAnalyzing, readers, loads, detectorVars,
                    transform, overlayRefs, gestureState, pointers, nDown >>

\* handleCapture(src): setImageSrc, setMode('result') and the synchronous part
\* of analyzeImage, then the render's effects
handleCapture(img) ==
    /\ img \notin loads
    /\ imageSrc' = img
    /\ appMode' = "result"
    /\ isAnalyzing' = TRUE
    /\ showCoinTool' = FALSE
    /\ loads' = loads \cup {img}
    /\ pixelsPerMM' = EffectCalibration(showCoinTool, measurements, imageSize.width,
                                        FALSE, Undefined)
    /\ calSource' = EffectSource(showCoinTool, measurements, imageSize.width,
                                 FALSE, Undefined, "none")
    /\ OverlayUnmounts
    /\ UNCHANGED << measurements, imageSize, highlightedIndex, detected,
                    detectorVars, pointers, nDown >>

\* CameraCapture: capture() with a screenshot
capture(img) ==
    /\ appMode = "camera"
    /\ handleCapture(img)
    /\ lastEvent' = "capture"
    /\ UNCHANGED readers

\* ImageUploader: handleFile(file) starts a FileReader
handleFile(img) ==
    /\ appMode = "upload"
    /\ img \notin readers
    /\ readers' = readers \cup {img}
    /\ lastEvent' = "handleFile"
    /\ UNCHANGED << measurements, calibration, imageSize, showCoinTool,
                    coinState, highlightedIndex,
                    detected, appMode, imageSrc, isAnalyzing, loads, detectorVars,
                    transform, overlayRefs, gestureState, pointers, nDown >>

\* reader.onload: onUpload(e.target.result), whatever App shows by then
readerLoaded(img) ==
    /\ img \in readers
    /\ readers' = readers \ {img}
    /\ handleCapture(img)
    /\ lastEvent' = "readerLoaded"

\* img.onload of analyzeImage: setImageSize, await detect(img), then
\* setMeasurements or the catch, then finally setIsAnalyzing(false).  detect
\* throws when landmarker is null, and landmarker.detect may throw.
imageLoaded(img, throws) ==
    /\ img \in loads
    /\ ~landmarker => throws
    /\ loads' = loads \ {img}
    /\ imageSize' = [width |-> Image(img).width, height |-> Image(img).height]
    /\ measurements' =
          IF throws THEN measurements ELSE detectMeasurements(Image(img).hands)
    /\ detected' = IF throws THEN detected ELSE measurements'
    /\ isAnalyzing' = FALSE
    /\ LET changed == ~throws \/ Image(img).width /= imageSize.width
       IN  /\ pixelsPerMM' = EffectCalibration(changed, measurements',
                                   Image(img).width, showCoinTool, pixelsPerMM)
           /\ calSource' = EffectSource(changed, measurements', Image(img).width,
                                   showCoinTool, pixelsPerMM, calSource)
    /\ lastEvent' = IF throws THEN "detectThrew" ELSE "detected"
    /\ UNCHANGED << showCoinTool, coinState, highlightedIndex, appMode, imageSrc,
                    readers,
                    detectorVars, transform, overlayRefs, gestureState, pointers,
                    nDown >>

\* The image fails to load: analyzeImage sets img.onload only, so the error
\* event of the image reaches no handler and no state changes
imageFailed(img) ==
    /\ img \in loads
    /\ loads' = loads \ {img}
    /\ lastEvent' = "imageError"
    /\ UNCHANGED << measurements, calibration, imageSize, showCoinTool,
                    coinState, highlightedIndex,
                    detected, appMode, imageSrc, isAnalyzing, readers,
                    detectorVars, transform, overlayRefs, gestureState, pointers,
                    nDown >>

\* reset, the Analyze New button
reset ==
    /\ appMode = "result" /\ ~isAnalyzing
    /\ imageSrc' = NoImage
    /\ measurements' = << >>
    /\ detected' = << >>
    /\ appMode' = "home"
    /\ pixelsPerMM' = Undefined
    /\ calSource' = "none"
    /\ showCoinTool' = FALSE
    /\ OverlayUnmounts
    /\ lastEvent' = "analyzeNew"
    /\ UNCHANGED << imageSize, isAnalyzing, highlightedIndex, readers, loads,
                    detectorVars, pointers, nDown >>

\* onHighlight = setHighlightedIndex, called with the index of a sidebar row
\* or of a box on mouse enter and with null on mouse leave
onHighlight(index) ==
    /\ OverlayMounted
    /\ index = NoIndex \/ index \in 1..Len(measurements)
    /\ highlightedIndex' = index
    /\ lastEvent' = "highlight"
    /\ UNCHANGED << measurements, calibration, imageSize, showCoinTool,
                    coinState, detected, flowVars, detectorVars, transform,
                    overlayRefs, gestureState, pointers, nDown >>

\* The state after App's first render
InitApp ==
    /\ measurements = << >>
    /\ detected = << >>
    /\ imageSize = [width |-> 0, height |-> 0]
    /\ pixelsPerMM = Undefined
    /\ calSource = "none"
    /\ showCoinTool = FALSE
    /\ appMode = "home"
    /\ imageSrc = NoImage
    /\ isAnalyzing = FALSE
    /\ landmarker = FALSE
    /\ isModelLoading = TRUE
    /\ modelError = FALSE
    /\ readers = {}
    /\ loads = {}
    /\ transform = InitialTransform
    /\ isPanning = FALSE
    /\ panStartRef = Pt(0, 0)
    /\ panStartTransformRef = Pt(0, 0)
    /\ activeId = NoIndex
    /\ interactionMode = "none"
    /\ dragStartRef = Pt(0, 0)
    /\ initialMeasurementRef = << >>
    /\ pinchStartDistRef = 0
    /\ pinchStartScaleRef = ScaleUnit
    /\ diameter = 100
    /\ position = Pt(0, 0)
    /\ initialized = FALSE
    /\ isDragging = FALSE
    /\ isResizing = FALSE
    /\ coinDragStartRef = Pt(0, 0)
    /\ highlightedIndex = NoIndex
    /\ touches = 0
    /\ touchDist = 0
    /\ nDown = 0
    /\ lastEvent = "mount"

\* SpecApp: sessions of acquisition, analysis, coin calibration and reset
NextApp ==
    \/ landmarkerLoaded
    \/ landmarkerFailed
    \/ setMode("home", "camera")
    \/ setMode("home", "upload")
    \/ setMode("camera", "home")
    \/ setMode("upload", "home")
    \/ \E img \in ImageIds : capture(img)
    \/ \E img \in ImageIds : handleFile(img)
    \/ \E img \in ImageIds : readerLoaded(img)
    \/ \E img \in ImageIds, throws \in BOOLEAN : imageLoaded(img, throws)
    \/ \E img \in ImageIds : imageFailed(img)
    \/ toggleCoinTool
    \/ reset

SpecApp == InitApp /\ [][NextApp]_vars

\* SpecAppLive: SpecApp in which the browser settles every pending image load,
\* by the load event or by the error event
LoadSettles(img) ==
    \/ \E throws \in BOOLEAN : imageLoaded(img, throws)
    \/ imageFailed(img)

SpecAppLive ==
    /\ InitApp
    /\ [][NextApp]_vars
    /\ \A img \in ImageIds : WF_vars(LoadSettles(img))

\* SpecSession: uploads whose analyses may overlap, with wheel zoom, mouse
\* pan and the Reset control on the mounted overlay
UploadIds == 1..2

NextSession ==
    \/ landmarkerLoaded
    \/ setMode("home", "upload")
    \/ \E img \in UploadIds : handleFile(img)
    \/ \E img \in UploadIds : readerLoaded(img)
    \/ \E img \in UploadIds : imageLoaded(img, FALSE)
    \/ reset
    \/ \E d \in ZoomInDeltas : OverlayMounted /\ handleWheel(d)
    \/ \E p \in MultiDown :
          OverlayMounted /\ nDown < MaxSeq /\ handleMouseDown(p, NoIndex, "pan")
    \/ \E p \in MultiPoints : OverlayMounted /\ isPanning /\ handleMouseMove(p)
    \/ OverlayMounted /\ handleMouseUp
    \/ OverlayMounted /\ resetClick

SpecSession == InitApp /\ [][NextSession]_vars

\* SpecSidebar: uploads whose analyses may overlap or fail, with the rows of
\* the list hovered, the Thumb box resized by touch and the coin tool toggled
SidebarIds == { 1, 3 }
HoverTargets == { NoIndex, 1, 2 }

NextSidebar ==
    \/ landmarkerLoaded
    \/ setMode("home", "upload")
    \/ \E img \in SidebarIds : handleFile(img)
    \/ \E img \in SidebarIds : readerLoaded(img)
    \/ \E img \in SidebarIds, throws \in BOOLEAN : imageLoaded(img, throws)
    \/ reset
    \/ toggleCoinTool
    \/ \E i \in HoverTargets : onHighlight(i)
    \/ \E p \in MultiDown :
          /\ OverlayMounted /\ nDown < MaxGestures /\ touches = 0
          /\ handleTouchStart(p, 0, 1, "resize-e")
    \/ \E p \in MultiPoints : OverlayMounted /\ touches = 1 /\ handleTouchMove(p, 0)
    \/ OverlayMounted /\ handleTouchEnd

SpecSidebar == InitApp /\ [][NextSidebar]_vars

-----------------------------------------------------------------------------
(* MeasurementSidebar *)

RECURSIVE GCD(_, _)
GCD(a, b) == IF b <= 0 THEN a ELSE GCD(b, a % b)

\* The initial text of widthMM and heightMM
Dashes == [ text |-> "---" ]

\* (truePx / pixelsPerMM).toFixed(1) as a count of tenths of a millimetre,
\* for truePx = norm * natural: norm in 1/Unit, pixelsPerMM in 1/PpmDen
Fixed1(norm, natural, ppm) ==
    LET perUnit == natural * 10 * (PpmDen \div Unit)
        g == GCD(perUnit, ppm)
        a == perUnit \div g
        b == ppm \div g
    IN  [ text |-> "toFixed", tenths |-> (2 * norm * a + b) \div (2 * b) ]

\* if (pixelsPerMM && imageSize.width > 0)
Calibrated(ppm, size) == ppm /= Undefined /\ ppm /= 0 /\ size.width > 0

\* Variant of widthMM whose initial text is a number
widthMMZeroByDefault(m, ppm, size) ==
    IF Calibrated(ppm, size)
    THEN Fixed1(m.boundingBox.width, size.width, ppm)
    ELSE [ text |-> "toFixed", tenths |-> 0 ]

widthMM(m, ppm, size) ==
    IF Calibrated(ppm, size)
    THEN Fixed1(m.boundingBox.width, size.width, ppm)
    ELSE Dashes

\* Variant of heightMM that scales the height by the native width
heightMMOfNaturalWidth(m, ppm, size) ==
    IF Calibrated(ppm, size)
    THEN Fixed1(m.boundingBox.height, size.width, ppm)
    ELSE Dashes

heightMM(m, ppm, size) ==
    IF Calibrated(ppm, size)
    THEN Fixed1(m.boundingBox.height, size.height, ppm)
    ELSE Dashes

\* The rows of the list; no row (null) for an empty list
MeasurementSidebar(ms, ppm, size) ==
    [ i \in 1..Len(ms) |->
        [ finger |-> ms[i].finger,
          widthMM |-> widthMM(ms[i], ppm, size),
          heightMM |-> heightMM(ms[i], ppm, size) ] ]

\* App renders the overlay and the sidebar in result mode, with an image,
\* when no analysis is running
SidebarMounted == appMode = "result" /\ imageSrc /= NoImage /\ ~isAnalyzing

\* The error banner of App: {modelError && ...}
ErrorBanner == modelError

-----------------------------------------------------------------------------
(* Properties *)

Box(i) == measurements[i].boundingBox
Boxes == 1..Len(measurements)
MoveEvents == { "mouseMove", "touchMove" }
ReleaseEvents == { "mouseUp", "touchEnd" }

\* C1: every box of the measurement list, the detector's included, has
\* width >= 0.01 and height >= 0.01
C1_BoxFloor ==
    \A i \in Boxes : Box(i).width >= EPS /\ Box(i).height >= EPS

\* C2: the zoom factor stays within [0.5, 5] whatever wheel, pinch and button
\* input arrives
C2_ScaleInRange ==
    ScaleMin <= transform.scale /\ transform.scale <= ScaleMax

\* A wheel event has been handled before any pointer went down, and the zoom
\* sits on the lower limit
C2_WheelClamped ==
    /\ lastEvent = "wheel"
    /\ transform.scale = ScaleMin
    /\ nDown = 0

\* C3: once the calibration is manual, no step that changes the measurement
\* list changes pixelsPerMM, and no step makes the calibration implied again
C3_ManualSticky ==
    [][ calSource = "manual" =>
           /\ measurements' /= measurements => pixelsPerMM' = pixelsPerMM
           /\ calSource' = "manual" ]_vars

\* The coin tool was opened and closed, and a touch gesture has since resized
\* the Thumb box; pixelsPerMM is still the coin's value
C3_EditAfterManual ==
    /\ calSource = "manual"
    /\ ~showCoinTool
    /\ lastEvent = "touchMove"
    /\ activeId = 1
    /\ measurements[1].finger = "Thumb"
    /\ Box(1).width /= detected[1].boundingBox.width
    /\ pixelsPerMM = ManualCalibration(diameter, imageSize.width, ContainerW)
    /\ pixelsPerMM /= ImpliedRatio(FirstThumb(measurements), imageSize.width)

\* C4: the view is never being panned while a box is the target of a gesture
C4_PanExcludesBox ==
    ~(isPanning /\ activeId /= NoIndex)

\* C5: a second touch point arriving during any single-pointer gesture ends
\* that gesture and starts a pinch from the current zoom and the current
\* distance of the two points; while no box is targeted no touch move changes
\* a box, and a box becomes targeted only by a new pointer-down
C5_SecondTouchCancels ==
    [][ /\ (touches = 1 /\ touches' = 2) =>
              /\ activeId' = NoIndex
              /\ interactionMode' = "none"
              /\ isPanning' = FALSE
              /\ pinchStartScaleRef' = transform.scale
              /\ pinchStartDistRef' = touchDist'
        /\ (activeId = NoIndex /\ lastEvent' = "touchMove") =>
              measurements' = measurements
        /\ (activeId = NoIndex /\ activeId' /= NoIndex) =>
              lastEvent' \in { "mouseDown", "touchStart" } ]_vars

\* A box was being moved by one touch point when a second one arrived, and
\* the two points have moved since: the box is where the first point left it
C5_PinchAfterDrag ==
    /\ touches = 2
    /\ nDown = 2
    /\ lastEvent = "touchMove"
    /\ activeId = NoIndex
    /\ initialMeasurementRef /= << >>
    /\ \E i \in Boxes : measurements[i] /= detected[i]
    /\ pinchStartDistRef > 0
    /\ transform.scale /= pinchStartScaleRef

\* C6: a mouse-up, a mouse-leave or a touch-end leaves no gesture in
\* progress, and the move event that follows it changes neither a box nor
\* the view
C6_ReleaseEndsGesture ==
    [][ /\ lastEvent' \in ReleaseEvents =>
              (~isPanning' /\ activeId' = NoIndex /\ interactionMode' = "none")
        /\ (lastEvent \in ReleaseEvents /\ lastEvent' \in MoveEvents) =>
              (measurements' = measurements /\ transform' = transform) ]_vars

\* C7: a move to p during a drag started at dragStartRef, by mouse or by one
\* touch point, puts the box's centre at the snapshot's centre plus the
\* pointer delta divided by the drawn width and height of the container, and
\* leaves its width, height and rotation as they were
C7_DragFollowsPointer ==
    [][ \A p \in Points :
          ( /\ ~isPanning
            /\ ObjectGuard
            /\ interactionMode = "drag"
            /\ ExactNorm(p.x - dragStartRef.x, p.y - dragStartRef.y, transform)
            /\ handleMouseMove(p) \/ (touches = 1 /\ handleTouchMove(p, 0)) )
          => LET snap == initialMeasurementRef[1].boundingBox
                 bb == measurements'[activeId].boundingBox
             IN  /\ bb.x * RectWidth(transform) =
                       snap.x * RectWidth(transform)
                         + (p.x - dragStartRef.x) * ScaleUnit * Unit
                 /\ bb.y * RectHeight(transform) =
                       snap.y * RectHeight(transform)
                         + (p.y - dragStartRef.y) * ScaleUnit * Unit
                 /\ bb.width = snap.width
                 /\ bb.height = snap.height
                 /\ bb.rotation = snap.rotation ]_vars

\* C8: a step never changes the length of the measurement list nor any box
\* other than the active one, and a move while panning or pinching changes
\* no box at all
C8_OnlyActiveBox ==
    [][ /\ Len(measurements') = Len(measurements)
        /\ \A i \in Boxes : i /= activeId => measurements'[i] = measurements[i]
        /\ ((isPanning \/ touches = 2) /\ lastEvent' \in MoveEvents) =>
              measurements' = measurements ]_vars

\* A touch gesture has changed the second box, and every other box is as the
\* detector delivered it
C8_SecondBoxEdited ==
    /\ lastEvent = "touchMove"
    /\ activeId = 2
    /\ measurements[2] /= detected[2]
    /\ \A i \in Boxes : i /= 2 => measurements[i] = detected[i]

\* The local x component of the pointer delta from dragStartRef to p, for a
\* box of the given rotation
LocalDeltaX(rotation, p) ==
    LocalDx(rotation, NormDx(p.x - dragStartRef.x, transform),
                      NormDy(p.y - dragStartRef.y, transform))

\* The snapshot of the running gesture is what an East resize by the local
\* delta d makes of the box base
IsEastResult(base, d) ==
    LET b == base.boundingBox
        s == initialMeasurementRef[1].boundingBox
    IN  /\ s.width = Max(EPS, b.width + d)
        /\ 2 * 5 * (s.x - b.x) = d * Cos5(b.rotation)
        /\ 2 * 5 * (s.y - b.y) = d * Sin5(b.rotation)
        /\ s.height = b.height
        /\ s.rotation = b.rotation

\* A touch move to p of a West resize of the first box, whose snapshot is the
\* East result of the detected box for the very pointer delta of this move
WestUndoesEast(p) ==
    /\ touches = 1
    /\ ~isPanning
    /\ ObjectGuard
    /\ activeId = 1
    /\ interactionMode = "resize-w"
    /\ IsEastResult(detected[1], LocalDeltaX(detected[1].boundingBox.rotation, p))
    /\ handleTouchMove(p, 0)

\* C9, as the specification states it: East by +d and then West by +d leave
\* the width and center.x of the baseline box
C9_EastWestRestores ==
    [][ \A p \in Points :
          WestUndoesEast(p) =>
              /\ measurements'[1].boundingBox.width = detected[1].boundingBox.width
              /\ measurements'[1].boundingBox.x = detected[1].boundingBox.x ]_vars

\* C9: East by +d and then West by +d leave the width
\* max(eps, max(eps, w + d) - d), which is w when w >= eps and w + d >= eps,
\* and move the centre by d along the box's local x axis, that is
\* center.x by d * cos(rotation) and center.y by d * sin(rotation)
C9_EastWestTranslates ==
    [][ \A p \in Points :
          WestUndoesEast(p) =>
              LET b == detected[1].boundingBox
                  d == LocalDeltaX(b.rotation, p)
                  bb == measurements'[1].boundingBox
              IN  /\ bb.width = Max(EPS, Max(EPS, b.width + d) - d)
                  /\ 5 * (bb.x - b.x) = d * Cos5(b.rotation)
                  /\ 5 * (bb.y - b.y) = d * Sin5(b.rotation)
                  /\ bb.height = b.height
                  /\ bb.rotation = b.rotation ]_vars

\* The first box has been widened on its East edge and then narrowed by as
\* much on its West edge: it has the detected width, and its centre is off
\* the detected one by the widening
C9_WidenedThenNarrowed ==
    /\ lastEvent = "touchMove"
    /\ activeId = 1
    /\ interactionMode = "resize-w"
    /\ initialMeasurementRef /= << >>
    /\ LET b == detected[1].boundingBox
           s == initialMeasurementRef[1].boundingBox
       IN  /\ s.width > b.width
           /\ IsEastResult(detected[1], s.width - b.width)
           /\ Box(1).width = b.width
           /\ 5 * (Box(1).x - b.x) = (s.width - b.width) * Cos5(b.rotation)
           /\ 5 * (Box(1).y - b.y) = (s.width - b.width) * Sin5(b.rotation)
           /\ Box(1).x /= b.x

\* C10: after every touch move of a resize gesture the edge opposite to the
\* dragged one is where the gesture-start snapshot has it: the centre has
\* moved along the resized axis by half the change of the extent, towards
\* the dragged edge
C10_OppositeEdgeFixed ==
    ( /\ lastEvent = "touchMove"
      /\ touches = 1
      /\ ~isPanning
      /\ ObjectGuard
      /\ IsResize(interactionMode) )
    => LET s == initialMeasurementRef[1].boundingBox
           bb == Box(activeId)
           dw == bb.width - s.width
           dh == bb.height - s.height
       IN  CASE interactionMode = "resize-e" ->
                   /\ 2 * 5 * (bb.x - s.x) = dw * Cos5(s.rotation)
                   /\ 2 * 5 * (bb.y - s.y) = dw * Sin5(s.rotation)
             [] interactionMode = "resize-w" ->
                   /\ 2 * 5 * (bb.x - s.x) = (-dw) * Cos5(s.rotation)
                   /\ 2 * 5 * (bb.y - s.y) = (-dw) * Sin5(s.rotation)
             [] interactionMode = "resize-s" ->
                   /\ 2 * 5 * (bb.x - s.x) = (-dh) * Sin5(s.rotation)
                   /\ 2 * 5 * (bb.y - s.y) = dh * Cos5(s.rotation)
             [] OTHER ->
                   /\ 2 * 5 * (bb.x - s.x) = dh * Sin5(s.rotation)
                   /\ 2 * 5 * (bb.y - s.y) = (-dh) * Cos5(s.rotation)

\* C11: with no manual calibration, the coin tool closed, no analysis running,
\* the native size known and a Thumb in the list, pixelsPerMM is the width of
\* the first Thumb times the native image width, divided by 15.0
C11_ImpliedFormula ==
    ( /\ ~showCoinTool
      /\ calSource /= "manual"
      /\ ~isAnalyzing
      /\ imageSize.width > 0
      /\ HasThumb(measurements) )
    => pixelsPerMM =
          FirstThumb(measurements).width * imageSize.width
             * (PpmDen \div (ASSUMED_THUMB_WIDTH_MM * Unit))

\* C12: opening the coin tool sets pixelsPerMM to the disk diameter divided
\* by 26.0, times the native image width divided by the displayed width of
\* the container
C12_ManualFormula ==
    [][ (~showCoinTool /\ showCoinTool') =>
           /\ (PpmDen \div COIN_DIAMETER_MM) % ContainerW = 0
           /\ pixelsPerMM' = diameter' * imageSize'.width
                                * ((PpmDen \div COIN_DIAMETER_MM) \div ContainerW) ]_vars

\* The coin tool has just been opened with a 100 px disk on a 4000 px wide
\* image shown 500 px wide: pixelsPerMM is 800 / 26 = 30.77
C12_CoinOpenedOnWideImage ==
    /\ showCoinTool
    /\ lastEvent = "toggleCoin"
    /\ diameter = 100
    /\ imageSize.width = 4000
    /\ ContainerW = 500
    /\ pixelsPerMM = 800 * (PpmDen \div COIN_DIAMETER_MM)
    /\ calSource = "manual"

\* C13: Analyze New and the start of the analysis of a new image each leave
\* pixelsPerMM unset and the coin tool hidden
C13_NewSessionUncalibrated ==
    [][ (reset \/ \E img \in ImageIds : capture(img) \/ readerLoaded(img)) =>
           /\ pixelsPerMM' = Undefined
           /\ ~showCoinTool' ]_vars

\* C14: while pixelsPerMM is unset, a step that leaves the coin tool closed
\* and a list without a Thumb leaves pixelsPerMM unset, and with pixelsPerMM
\* unset every row of the sidebar shows dashes for width and height
C14_NoReferenceNoMillimetres ==
    [][ /\ ( /\ pixelsPerMM = Undefined
             /\ ~showCoinTool'
             /\ ~HasThumb(measurements') ) => pixelsPerMM' = Undefined
        /\ pixelsPerMM' = Undefined =>
             \A i \in 1..Len(measurements') :
                LET row == MeasurementSidebar(measurements', pixelsPerMM',
                                              imageSize')[i]
                IN  row.widthMM = Dashes /\ row.heightMM = Dashes ]_vars

\* An image without a hand has been analysed: the list is empty and
\* pixelsPerMM is unset
C14_NoHandDetected ==
    /\ lastEvent = "detected"
    /\ SidebarMounted
    /\ measurements = <<>>
    /\ calSource = "none"
    /\ pixelsPerMM = Undefined

\* C15: when the detector call has failed for an image, the analysis is over,
\* an error is shown to the user and the measurement list is empty
C15_DetectionFailureReported ==
    lastEvent = "detectThrew" =>
        /\ ~isAnalyzing
        /\ ErrorBanner
        /\ measurements = <<>>

\* C16: a mouse move leaves the measurement list and the view transform as
\* a single-touch move at the same position would leave them: a pan moves
\* the view only, a box gesture rewrites the active box from its snapshot
C16_MouseMoveAsTouchMove ==
    [][ \A p \in Points :
          (touches = 0 /\ handleMouseMove(p)) =>
             IF isPanning
             THEN /\ transform' = PanTransform(transform, panStartRef,
                                               panStartTransformRef, p)
                  /\ measurements' = measurements
             ELSE IF ObjectGuard /\ UpdateExact(initialMeasurementRef[1],
                                        interactionMode, dragStartRef, p, transform)
             THEN /\ transform' = transform
                  /\ measurements' =
                        NewMeasurements(measurements, activeId,
                                        initialMeasurementRef[1], interactionMode,
                                        dragStartRef, p, transform)
             ELSE TRUE ]_vars

\* The angle by which the pointer has turned about the centre of the box
\* since the gesture began
PointerTurn(m, start, p, t) ==
    AngleSub(Atan2(ScreenN(p.y) - CenterY(m, t), ScreenN(p.x) - CenterX(m, t)),
             Atan2(ScreenN(start.y) - CenterY(m, t),
                   ScreenN(start.x) - CenterX(m, t)))

\* C17: a move of a rotate gesture leaves the centre, width and height of
\* the box as they were and adds the pointer's turn to the rotation; when
\* the box came from the detected one by a turn of theta and the pointer has
\* turned by -theta, the box is the detected one again
C17_CounterRotationRestores ==
    [][ \A p \in Points :
          ( /\ touches = 1
            /\ ~isPanning
            /\ ObjectGuard
            /\ interactionMode = "rotate"
            /\ RotateExact(initialMeasurementRef[1], dragStartRef, p, transform)
            /\ handleTouchMove(p, 0) )
          => LET snap == initialMeasurementRef[1]
                 orig == detected[activeId]
                 theta == AngleSub(snap.boundingBox.rotation,
                                   orig.boundingBox.rotation)
                 turn == PointerTurn(snap, dragStartRef, p, transform)
                 new == measurements'[activeId]
             IN  /\ new.boundingBox.x = snap.boundingBox.x
                 /\ new.boundingBox.y = snap.boundingBox.y
                 /\ new.boundingBox.width = snap.boundingBox.width
                 /\ new.boundingBox.height = snap.boundingBox.height
                 /\ new.boundingBox.rotation =
                       AngleAdd(snap.boundingBox.rotation, turn)
                 /\ ( /\ snap.boundingBox =
                            [orig.boundingBox EXCEPT
                                !.rotation = snap.boundingBox.rotation]
                      /\ turn = AngleNeg(theta) ) => new = orig ]_vars

\* A second rotate gesture has turned the first box back: its snapshot is
\* turned away from the detected box and the box is the detected one again
C17_TurnedAndTurnedBack ==
    /\ lastEvent = "touchMove"
    /\ interactionMode = "rotate"
    /\ activeId = 1
    /\ initialMeasurementRef[1].boundingBox.rotation
          /= detected[1].boundingBox.rotation
    /\ measurements[1] = detected[1]

\* C18: no gesture step and no calibration step changes the length of the
\* list or the finger label of the box at any index
C18_LabelsKept ==
    [][ (lastEvent' \in MoveEvents \cup ReleaseEvents
                           \cup {"touchStart", "mouseDown", "toggleCoin"}) =>
           /\ Len(measurements') = Len(measurements)
           /\ \A i \in 1..Len(measurements) :
                 /\ measurements'[i].finger = measurements[i].finger
                 /\ measurements'[i].finger = detected[i].finger ]_vars

\* The Thumb box has been dragged, resized and calibrated over, and still
\* carries its label
C18_EditedThumb ==
    /\ lastEvent = "touchMove"
    /\ interactionMode = "drag"
    /\ calSource = "manual"
    /\ measurements[1].boundingBox.x /= detected[1].boundingBox.x
    /\ measurements[1].boundingBox.width /= detected[1].boundingBox.width
    /\ measurements[1].finger = "Thumb"

\* C19: while panning, a mouse move or a one-finger move sets the translate
\* to the translate captured at the pointer-down plus the screen delta from
\* the pointer-down position, and leaves the scale and every box unchanged
C19_PanAddsScreenDelta ==
    [][ \A p \in MultiPoints :
          ( /\ isPanning
            /\ handleMouseMove(p) \/ (touches = 1 /\ handleTouchMove(p, 0)) )
          => /\ transform'.x = panStartTransformRef.x + (p.x - panStartRef.x)
             /\ transform'.y = panStartTransformRef.y + (p.y - panStartRef.y)
             /\ transform'.scale = transform.scale
             /\ measurements' = measurements ]_vars

\* A pan that began from a moved view, at a zoom other than 1, has moved it
\* further
C19_PannedWhileZoomed ==
    /\ isPanning
    /\ lastEvent \in MoveEvents
    /\ transform.scale /= ScaleUnit
    /\ panStartTransformRef.x /= 0
    /\ transform.x /= panStartTransformRef.x

\* No gesture is running and no finger is down
Idle ==
    /\ ~isPanning
    /\ activeId = NoIndex
    /\ interactionMode = "none"
    /\ touches = 0

\* C20: from Idle, a mouse down or a first touch on the background starts a
\* pan from the pointer position and the current translate and targets no
\* box; on the body, an edge handle or the rotate handle of a box it makes
\* that box the active one in the mode of that target, takes the box's
\* current value as the snapshot and the pointer position as the origin, and
\* starts no pan
C20_DownFromIdle ==
    [][ \A p \in DownPoints :
          /\ ( /\ Idle
               /\ \/ handleMouseDown(p, NoIndex, "pan")
                  \/ handleTouchStart(p, 0, NoIndex, "pan") )
             => /\ isPanning'
                /\ activeId' = NoIndex
                /\ interactionMode' = "none"
                /\ panStartRef' = p
                /\ panStartTransformRef' = Pt(transform.x, transform.y)
                /\ measurements' = measurements
          /\ \A i \in Targets, m \in BoxModes :
                ( /\ Idle
                  /\ handleMouseDown(p, i, m) \/ handleTouchStart(p, 0, i, m) )
                => /\ activeId' = i
                   /\ interactionMode' = m
                   /\ initialMeasurementRef' = << measurements[i] >>
                   /\ dragStartRef' = p
                   /\ ~isPanning'
                   /\ measurements' = measurements ]_vars

\* The first pointer-down of the session was a finger on the north edge
\* handle of the second box
C20_NorthHandleOfSecondBox ==
    /\ lastEvent = "touchStart"
    /\ nDown = 1
    /\ touches = 1
    /\ activeId = 2
    /\ interactionMode = "resize-n"
    /\ initialMeasurementRef = << measurements[2] >>
    /\ ~isPanning

\* C21: a one-finger move of a drag, resize or rotate gesture writes the box
\* that the same move would write had no move come before it, so the box
\* depends on the snapshot and the pointer position only, and a move back to
\* the position of the pointer-down writes the snapshot itself
C21_NoDrift ==
    [][ \A p \in Points :
          ( /\ touches = 1
            /\ ~isPanning
            /\ ObjectGuard
            /\ UpdateExact(initialMeasurementRef[1], interactionMode, dragStartRef,
                           p, transform)
            /\ handleTouchMove(p, 0) )
          => LET snap == initialMeasurementRef[1]
                 fresh == [measurements EXCEPT ![activeId] = snap]
             IN  /\ measurements' =
                       NewMeasurements(fresh, activeId, snap, interactionMode,
                                       dragStartRef, p, transform)
                 /\ p = dragStartRef => measurements'[activeId] = snap ]_vars

\* The local y component of the pointer delta from dragStartRef to p, for a
\* box of the given rotation
LocalDeltaY(rotation, p) ==
    LocalDy(rotation, NormDx(p.x - dragStartRef.x, transform),
                      NormDy(p.y - dragStartRef.y, transform))

\* A one-finger move to p that updates the active box in a resize mode
ResizeUpdate(p) ==
    /\ touches = 1
    /\ ~isPanning
    /\ ObjectGuard
    /\ IsResize(interactionMode)
    /\ ResizeExact(initialMeasurementRef[1], interactionMode, dragStartRef, p,
                   transform)
    /\ handleTouchMove(p, 0)

\* C22: a resize update writes the resized extent as max(0.01, snapshot
\* extent + local delta) for East and South and max(0.01, snapshot extent -
\* local delta) for West and North, so it is never below 0.01
C22_ResizedExtentClamped ==
    [][ \A p \in Points :
          ResizeUpdate(p) =>
             LET snap == initialMeasurementRef[1].boundingBox
                 ldx == LocalDeltaX(snap.rotation, p)
                 ldy == LocalDeltaY(snap.rotation, p)
                 new == measurements'[activeId].boundingBox
             IN  /\ interactionMode = "resize-e" =>
                       new.width = Max(EPS, snap.width + ldx) /\ new.width >= EPS
                 /\ interactionMode = "resize-w" =>
                       new.width = Max(EPS, snap.width - ldx) /\ new.width >= EPS
                 /\ interactionMode = "resize-s" =>
                       new.height = Max(EPS, snap.height + ldy) /\ new.height >= EPS
                 /\ interactionMode = "resize-n" =>
                       new.height = Max(EPS, snap.height - ldy) /\ new.height >= EPS
       ]_vars

\* A West resize has pushed the pointer further than the box was wide: the
\* width sits on 0.01
C22_WestClampEngaged ==
    /\ lastEvent = "touchMove"
    /\ interactionMode = "resize-w"
    /\ activeId /= NoIndex
    /\ initialMeasurementRef /= << >>
    /\ initialMeasurementRef[1].boundingBox.width > EPS
    /\ Box(activeId).width = EPS

\* C23: a resize update on the East or West edge leaves the height of the
\* snapshot, one on the North or South edge leaves its width, and every one
\* leaves its rotation
C23_OneAxisResized ==
    [][ \A p \in Points :
          ResizeUpdate(p) =>
             LET snap == initialMeasurementRef[1].boundingBox
                 old == measurements[activeId].boundingBox
                 new == measurements'[activeId].boundingBox
             IN  /\ interactionMode \in {"resize-e", "resize-w"} =>
                       new.height = snap.height /\ new.height = old.height
                 /\ interactionMode \in {"resize-n", "resize-s"} =>
                       new.width = snap.width /\ new.width = old.width
                 /\ new.rotation = snap.rotation
                 /\ new.rotation = old.rotation ]_vars

\* A North resize has changed the height of a box and left its width
C23_NorthEdgeMoved ==
    /\ lastEvent = "touchMove"
    /\ interactionMode = "resize-n"
    /\ activeId /= NoIndex
    /\ initialMeasurementRef /= << >>
    /\ Box(activeId).height /= initialMeasurementRef[1].boundingBox.height
    /\ Box(activeId).width = initialMeasurementRef[1].boundingBox.width

\* C24: the touch-down that makes two touch points stores their distance and
\* the current scale; a two-touch move with positive start and current
\* distances sets the scale to clamp(stored scale * distance / stored
\* distance, 0.5, 5) and leaves the translate and every box unchanged
C24_PinchScales ==
    [][ \A d \in PinchDists :
          /\ ( touches = 1 /\ \E p \in DownPoints, i \in {NoIndex} \cup Targets,
                                 m \in {"pan"} \cup BoxModes :
                                 handleTouchStart(p, d, i, m) )
             => /\ pinchStartDistRef' = d
                /\ pinchStartScaleRef' = transform.scale
          /\ ( /\ touches = 2
               /\ pinchStartDistRef > 0
               /\ d > 0
               /\ ExactScale(pinchStartScaleRef * d, pinchStartDistRef)
               /\ handleTouchMove(Pt(0, 0), d) )
             => /\ transform'.scale =
                      Min(Max(ScaleMin, (pinchStartScaleRef * d) \div pinchStartDistRef),
                          ScaleMax)
                /\ transform'.x = transform.x
                /\ transform'.y = transform.y
                /\ measurements' = measurements ]_vars

\* A pinch that began at a zoom other than 1 has changed the zoom of a moved
\* view
C24_PinchedFromZoomedView ==
    /\ lastEvent = "touchMove"
    /\ touches = 2
    /\ pinchStartDistRef > 0
    /\ touchDist > 0
    /\ pinchStartScaleRef /= ScaleUnit
    /\ transform.scale /= pinchStartScaleRef
    /\ transform.x /= 0

\* C25: a two-touch move whose stored start distance or whose current
\* distance is zero changes neither the scale, the translate nor any box
C25_ZeroDistanceNoOp ==
    [][ \A d \in PinchDists :
          ( /\ touches = 2
            /\ pinchStartDistRef <= 0 \/ d <= 0
            /\ handleTouchMove(Pt(0, 0), d) )
          => /\ transform' = transform
             /\ measurements' = measurements ]_vars

\* Two fingers that were apart at a zoom other than the lower limit have
\* come to the same point
C25_FingersMet ==
    /\ lastEvent = "touchMove"
    /\ touches = 2
    /\ pinchStartDistRef > 0
    /\ touchDist = 0
    /\ transform.scale /= ScaleMin

\* C27: a wheel event and a click on the "+" or "-" button leave the
\* translate and every box unchanged
C27_ZoomKeepsTranslate ==
    [][ ((\E d \in WheelDeltas : handleWheel(d)) \/ zoomInClick \/ zoomOutClick)
          => /\ transform'.x = transform.x
             /\ transform'.y = transform.y
             /\ measurements' = measurements ]_vars

\* The wheel has changed the zoom of a view that had been panned
C27_WheelOnPannedView ==
    /\ lastEvent = "wheel"
    /\ transform.x /= 0
    /\ transform.scale /= ScaleUnit
    /\ ~isPanning

\* C26: lifting one of two touch points leaves no gesture running and
\* changes neither the view nor any box, and from then on a move of the one
\* remaining touch point changes neither the scale, the translate nor any
\* box and starts no gesture
C26_NoGestureAfterPinch ==
    [][ /\ (touches = 2 /\ handleTouchEnd) =>
              /\ ~isPanning'
              /\ activeId' = NoIndex
              /\ interactionMode' = "none"
              /\ transform' = transform
              /\ measurements' = measurements
        /\ \A p \in Points :
              ( /\ touches = 1
                /\ ~isPanning
                /\ activeId = NoIndex
                /\ handleTouchMove(p, 0) )
              => /\ transform' = transform
                 /\ measurements' = measurements
                 /\ ~isPanning'
                 /\ activeId' = NoIndex ]_vars

\* One finger of a pinch that changed the zoom has been lifted, and the other
\* has moved since
C26_RemainingFingerMoved ==
    /\ lastEvent = "touchMove"
    /\ touches = 1
    /\ nDown = 2
    /\ pinchStartDistRef > 0
    /\ transform.scale /= pinchStartScaleRef
    /\ ~isPanning
    /\ activeId = NoIndex

\* C28: the view transform is {scale: 1, x: 0, y: 0} right after the Reset
\* control is used, whenever the overlay mounts, and whenever a newly
\* analysed image is shown in it
C28_FreshView ==
    [][ ( \/ resetClick
          \/ (~OverlayMounted /\ OverlayMounted')
          \/ (OverlayMounted' /\ lastEvent' = "detected") )
        => transform' = InitialTransform ]_vars

\* C29: every analysis ends: whenever isAnalyzing is true it is false again
\* later
C29_AnalysisEnds ==
    isAnalyzing ~> ~isAnalyzing

\* C30: when no image load is pending and the last analysis delivered a
\* result, the native size and the measurement list are those of the image
\* displayed, which is the one submitted last
C30_LastSubmittedShown ==
    ( /\ loads = {}
      /\ readers = {}
      /\ imageSrc /= NoImage
      /\ lastEvent = "detected" )
    => /\ imageSize = [width |-> Image(imageSrc).width,
                       height |-> Image(imageSrc).height]
       /\ measurements = detectMeasurements(Image(imageSrc).hands)

\* C31: whenever the coin tool is visible, pixelsPerMM is the manual value
\* computed from the current disk diameter: the diameter over 26 mm, scaled
\* by the native image width over the rendered width
C31_CoinToolShowsManual ==
    showCoinTool =>
        pixelsPerMM = ManualCalibration(diameter, imageSize.width, ContainerW)

\* C32: once the implied estimator has set pixelsPerMM, no step other than
\* opening the coin tool or resetting the session changes it, edits of the
\* Thumb box included: it stays the value derived from the Thumb width as
\* detected
C32_ImpliedSticky ==
    [][ ( /\ calSource = "implied"
          /\ lastEvent' \notin { "toggleCoin", "analyzeNew" } )
        => /\ pixelsPerMM' = pixelsPerMM
           /\ pixelsPerMM' = ImpliedRatio(FirstThumb(detected), imageSize.width)
      ]_vars

\* A Thumb box resized and released under the implied calibration
C32_ThumbResizedUnderImplied ==
    /\ calSource = "implied"
    /\ lastEvent = "touchEnd"
    /\ measurements[1].finger = "Thumb"
    /\ Box(1).width /= detected[1].boundingBox.width
    /\ pixelsPerMM = ImpliedRatio(FirstThumb(detected), imageSize.width)

\* C33: a move that drags the reference disk, a pan of the canvas and a zoom
\* of the view leave pixelsPerMM as it is; between two states in which the
\* coin tool is open, pixelsPerMM changes only by a move of a resize gesture
\* that changes the disk's diameter
C33_OnlyResizeCalibrates ==
    [][ /\ lastEvent' \in { "wheel", "mouseDown", "mouseMove", "mouseUp" }
              => pixelsPerMM' = pixelsPerMM
        /\ (lastEvent' = "coinMove" /\ (isDragging \/ ~isResizing))
              => pixelsPerMM' = pixelsPerMM
        /\ (showCoinTool /\ showCoinTool' /\ pixelsPerMM' /= pixelsPerMM)
              => /\ lastEvent' = "coinMove"
                 /\ isResizing
                 /\ diameter' /= diameter ]_vars

\* The disk dragged off the centre on a zoomed and panned view, the manual
\* value being that of the untouched diameter
C33_DiskDraggedOnZoomedView ==
    /\ showCoinTool
    /\ lastEvent = "coinMove"
    /\ isDragging
    /\ position /= CenteredPosition(diameter)
    /\ transform.scale /= ScaleUnit
    /\ transform.x /= 0
    /\ diameter = 100
    /\ pixelsPerMM = ManualCalibration(diameter, imageSize.width, ContainerW)

\* C34: through every sequence of disk drags and resizes the diameter is at
\* least 20 px, and a pixelsPerMM that the coin tool produced is strictly
\* positive
C34_DiameterFloor ==
    /\ diameter >= MinDiameter
    /\ calSource = "manual" => pixelsPerMM > 0

\* A resize gesture that ran into the floor: the move asked for less than 20
\* px and the disk has 20 px, with the manual value of 20 px
C34_ResizedOntoFloor ==
    /\ showCoinTool
    /\ isResizing
    /\ lastEvent = "coinMove"
    /\ diameter = MinDiameter
    /\ position = CenteredPosition(100)
    /\ pixelsPerMM = ManualCalibration(MinDiameter, imageSize.width, ContainerW)

\* tenths is the count of tenths of a millimetre nearest to
\* norm * natural / pixelsPerMM, for norm in 1/Unit and pixelsPerMM in
\* 1/PpmDen: it is off the quotient by at most half a tenth
NearestTenth(tenths, norm, natural, ppm) ==
    LET perUnit == natural * 10 * (PpmDen \div Unit)
        g == GCD(perUnit, ppm)
        a == perUnit \div g
        b == ppm \div g
        off == 2 * tenths * b - 2 * norm * a
    IN  -b <= off /\ off <= b

\* C35: every row of the list shows, to one decimal, boundingBox.width times
\* the native width over pixelsPerMM and boundingBox.height times the native
\* height over pixelsPerMM, for the box as it is now; with pixelsPerMM unset
\* or zero, or a native width of 0, both texts are the dashes
C35_RowsInMillimetres ==
    SidebarMounted =>
        \A i \in Boxes :
            LET row == MeasurementSidebar(measurements, pixelsPerMM, imageSize)[i]
            IN  IF pixelsPerMM = Undefined \/ pixelsPerMM = 0 \/ imageSize.width = 0
                THEN row.widthMM = Dashes /\ row.heightMM = Dashes
                ELSE /\ row.widthMM.text = "toFixed"
                     /\ NearestTenth(row.widthMM.tenths, Box(i).width,
                                     imageSize.width, pixelsPerMM)
                     /\ row.heightMM.text = "toFixed"
                     /\ NearestTenth(row.heightMM.tenths, Box(i).height,
                                     imageSize.height, pixelsPerMM)

\* The Thumb box widened by a resize: its row shows a width other than the
\* one of the box as detected, next to a height
C35_RowOfWidenedThumb ==
    /\ SidebarMounted
    /\ lastEvent = "touchMove"
    /\ pixelsPerMM /= Undefined
    /\ Box(1).width > detected[1].boundingBox.width
    /\ LET row == MeasurementSidebar(measurements, pixelsPerMM, imageSize)[1]
           old == MeasurementSidebar(detected, pixelsPerMM, imageSize)[1]
       IN  /\ row.widthMM.text = "toFixed"
           /\ row.widthMM.tenths > old.widthMM.tenths
           /\ row.heightMM.tenths > 0

\* C37: the highlight index is none or an index into the current list of
\* measurements, in every reachable state
C37_HighlightInList ==
    highlightedIndex = NoIndex \/ highlightedIndex \in 1..Len(measurements)

\* C36: when the model initialisation has ended, exactly one of landmarker
\* and error is set and the loading flag is false, and none of the three
\* changes afterwards; a detection attempted while no landmarker is set
\* throws and leaves the list of measurements as it was
C36_InitEndsOnce ==
    [][ /\ ~isModelLoading' => (landmarker' /= modelError')
        /\ ~isModelLoading => UNCHANGED detectorVars
        /\ (lastEvent' \in { "detected", "detectThrew" } /\ ~landmarker)
              => /\ lastEvent' = "detectThrew"
                 /\ measurements' = measurements ]_vars

\* The model failed to load and an image was submitted after that: the
\* detection threw, the analysis is over and the list is empty
C36_DetectWithoutModel ==
    /\ modelError
    /\ ~landmarker
    /\ ~isModelLoading
    /\ lastEvent = "detectThrew"
    /\ ~isAnalyzing
    /\ appMode = "result"
    /\ measurements = << >>

=============================================================================
